---- MODULE Spec2Model ----
(***************************************************************************)
(* Model of the GenAI RAG assistant backend: the session store             *)
(* (backend/utils/sessionStore.js), the similarity ranker                  *)
(* (utils/vector_math.js), the RAG pipeline (utils/rag.js), the chat and   *)
(* session routes and the start-up of backend/server.js, and the chunker   *)
(* and the ingestion run of scripts/ingest.js.                             *)
(*                                                                         *)
(* Numbers: a similarity is a fixed-point integer in units of 1/SCALE, and *)
(* the embedding vectors used have integral magnitudes whose products      *)
(* divide SCALE, so every cosine the model computes is the exact value.    *)
(* Strings: a request's message is a run-length encoded text (a sequence   *)
(* of [ch, n] runs), so that the 2000-character limit is reachable; the    *)
(* chunker's text is a plain sequence of characters.                       *)
(***************************************************************************)
EXTENDS Integers, Sequences, FiniteSets, TLC

VARIABLES
    sessions,     \* sessionStore.js `sessions`: sessionId -> sequence of turns
    vectorStore,  \* server.js `vectorStore`: sequence of embedded chunks
    threshold,    \* server.js SIMILARITY_THRESHOLD, in units of 1/SCALE
    pc,           \* per in-flight request: where the chat handler is
    h,            \* per in-flight request: the handler's locals
    nReq,         \* number of chat requests received so far
    rq,           \* ranker harness: the inputs of one retrieveTopK call
    rres,         \* ranker harness: the result of that call
    ck,           \* chunker: the state of one chunkText call
    file,         \* data/vector_store.json: whether it exists, and its records
    ing,          \* ingest.js: the state of one ingestion run
    boot,         \* server.js: the start-up of the serving process
    pr            \* composer harness: the arguments and the result of buildPrompt calls

vars == <<sessions, vectorStore, threshold, pc, h, nReq, rq, rres, ck, file, ing, boot, pr>>

serverVars == <<sessions, pc, h, nReq>>
rankVars   == <<rq, rres>>
offlineVars == <<file, ing, boot>>

\* ------------------------------------------------------------------ bounds

MaxSlots      == 2   \* chat requests in flight at once
MaxExchanges  == 3   \* chat requests received in one run of Spec
MaxLong       == 7   \* chat requests received in one run of SpecLong
MaxSeq        == 2   \* chat requests received in one run of SpecSeq
MaxStoreLen   == 3   \* chunks in the ranker harness's store
MaxK          == 3   \* largest k the ranker harness asks for
MaxTextLen    == 4   \* characters of the chunker's text
MaxChunkSize  == 3   \* largest chunkSize / overlap given to chunkText
MaxIter       == 6   \* loop iterations of chunkText the model follows
MaxDocs       == 2   \* documents of one ingestion run
MaxLive       == 2   \* chat requests received in one run of SpecLive
MaxPromptLen  == 3   \* chunks and turns given to one buildPrompt call

\* ------------------------------------------------------- program constants

MAX_HISTORY_PAIRS == 5
TOP_K_RESULTS     == 3
MAX_MESSAGE_LEN   == 2000
SCALE             == 100000
DEFAULT_THRESHOLD == 65000
CHUNK_SIZE_CHARS    == 1500
CHUNK_OVERLAP_CHARS == 200

Min(a, b) == IF a < b THEN a ELSE b
Max(a, b) == IF a > b THEN a ELSE b

\* --------------------------------------------------------------- JS values

\* Array.prototype.slice(begin, end) on a sequence (0-based, end exclusive,
\* negative indices count from the end).
JsSlice(s, begin, end) ==
    LET n  == Len(s)
        b  == IF begin < 0 THEN Max(n + begin, 0) ELSE Min(begin, n)
        e  == IF end < 0 THEN Max(n + end, 0) ELSE Min(end, n)
    IN  IF e <= b THEN <<>> ELSE [i \in 1..(e - b) |-> s[b + i]]

\* Run-length encoded text.
Text(c, n) == IF n = 0 THEN <<>> ELSE <<[ch |-> c, n |-> n]>>

RECURSIVE TextLen(_)
TextLen(t) == IF t = <<>> THEN 0 ELSE Head(t).n + TextLen(Tail(t))

IsSpace(c) == c = " "

RECURSIVE TrimStart(_)
TrimStart(t) ==
    IF t = <<>> THEN <<>>
    ELSE IF IsSpace(Head(t).ch) THEN TrimStart(Tail(t)) ELSE t

RECURSIVE TrimEnd(_)
TrimEnd(t) ==
    IF t = <<>> THEN <<>>
    ELSE IF IsSpace(t[Len(t)].ch) THEN TrimEnd(SubSeq(t, 1, Len(t) - 1)) ELSE t

\* String.prototype.trim
JsTrim(t) == TrimEnd(TrimStart(t))

\* ----------------------------------------------------------- sessionStore.js

USER  == "user"
MODEL == "model"

sessionExists(m, sessionId) == sessionId \in DOMAIN m

getSessionCount(m) == Cardinality(DOMAIN m)

createSession(m, sessionId) ==
    [id \in DOMAIN m \cup {sessionId} |-> IF id = sessionId THEN <<>> ELSE m[id]]

\* Mutant: the session is removed from the map.
clearSession_Deletes(m, sessionId) ==
    [id \in DOMAIN m \ {sessionId} |-> m[id]]

\* sessions.set(sessionId, []): for an id the map does not hold, this adds it
clearSession(m, sessionId) ==
    [id \in DOMAIN m \cup {sessionId} |-> IF id = sessionId THEN <<>> ELSE m[id]]

\* Mutant: the stored turns are cut to the window getHistory returns.
addMessage_Capped(m, sessionId, role, content, ex) ==
    LET m1 == IF sessionId \in DOMAIN m THEN m
              ELSE [id \in DOMAIN m \cup {sessionId} |->
                        IF id = sessionId THEN <<>> ELSE m[id]]
        pushed == Append(m1[sessionId], [role |-> role, content |-> content, ex |-> ex])
    IN  [m1 EXCEPT ![sessionId] = JsSlice(pushed, -(MAX_HISTORY_PAIRS * 2), Len(pushed))]

\* The turn's `ex` is a history field of the model: the chat request that
\* appended the turn, as [n, to], its number and the session id it named. The
\* program stores a timestamp there and never reads it.
addMessage(m, sessionId, role, content, ex) ==
    LET m1 == IF sessionId \in DOMAIN m THEN m
              ELSE [id \in DOMAIN m \cup {sessionId} |->
                        IF id = sessionId THEN <<>> ELSE m[id]]
    IN  [m1 EXCEPT ![sessionId] =
            Append(@, [role |-> role, content |-> content, ex |-> ex])]

\* Mutant: the window is MAX_HISTORY_PAIRS turns, not pairs.
getHistory_HalfWindow(m, sessionId) ==
    IF sessionId \notin DOMAIN m THEN <<>>
    ELSE LET messages == m[sessionId]
         IN  JsSlice(messages, -MAX_HISTORY_PAIRS, Len(messages))

getHistory(m, sessionId) ==
    IF sessionId \notin DOMAIN m THEN <<>>
    ELSE LET messages == m[sessionId]
         IN  JsSlice(messages, -(MAX_HISTORY_PAIRS * 2), Len(messages))

\* ------------------------------------------------------------ vector_math.js

\* A JS value that is an array of numbers, or undefined.
Arr(v)    == [t |-> "array", v |-> v]
Undefined == [t |-> "undefined", v |-> <<>>]

\* A JS number (in units of 1/SCALE), NaN, null, or a thrown exception.
Num(n) == [t |-> "num", v |-> n]
NaN    == [t |-> "nan", v |-> 0]
Null   == [t |-> "null", v |-> 0]
Throw  == [t |-> "throw", v |-> 0]

RECURSIVE Dot(_, _)
Dot(x, y) == IF x = <<>> THEN 0 ELSE Head(x) * Head(y) + Dot(Tail(x), Tail(y))

\* The l2 norm; the model's vectors have integral norms.
L2Norm(x) == LET ss == Dot(x, x) IN CHOOSE r \in 0..ss : r * r = ss

\* compute-cosine-similarity: throws on a non-array or on arrays of different
\* length, null on empty arrays, else dot / (|x| * |y|), which is 0/0 = NaN
\* when either vector is a zero vector.
cosineSimilarity(x, y) ==
    IF x.t # "array" \/ y.t # "array" THEN Throw
    ELSE IF Len(x.v) # Len(y.v) THEN Throw
    ELSE IF Len(x.v) = 0 THEN Null
    ELSE LET a == Dot(x.v, y.v)
             b == L2Norm(x.v)
             c == L2Norm(y.v)
         IN  IF b * c = 0 THEN NaN ELSE Num((a * SCALE) \div (b * c))

\* isNaN(x): ToNumber(null) is 0, so isNaN(null) is false.
isNaN(r) == r.t = "nan"

\* Mutant: the length comparison is missing from the guard.
getSimilarity_NoLengthGuard(vecA, vecB) ==
    IF vecA.t = "undefined" \/ vecB.t = "undefined"
    THEN Num(0)
    ELSE LET result == cosineSimilarity(vecA, vecB)
         IN  IF isNaN(result) THEN Num(0) ELSE result

getSimilarity(vecA, vecB) ==
    IF vecA.t = "undefined" \/ vecB.t = "undefined" \/ Len(vecA.v) # Len(vecB.v)
    THEN Num(0)
    ELSE LET result == cosineSimilarity(vecA, vecB)
         IN  IF isNaN(result) THEN Num(0) ELSE result

\* documents.map(...) of retrieveTopK
Scored(queryVector, documents) ==
    [i \in 1..Len(documents) |->
        [id      |-> documents[i].id,
         title   |-> documents[i].title,
         content |-> documents[i].content,
         score   |-> getSimilarity(queryVector, documents[i].embedding)]]

\* Mutant: the threshold comparison is strict.
RECURSIVE FilterByThreshold_Strict(_, _)
FilterByThreshold_Strict(s, thr) ==
    IF s = <<>> THEN <<>>
    ELSE IF Head(s).score.v > thr
         THEN <<Head(s)>> \o FilterByThreshold_Strict(Tail(s), thr)
         ELSE FilterByThreshold_Strict(Tail(s), thr)

\* Array.prototype.filter with the predicate doc.score >= threshold.
RECURSIVE FilterByThreshold(_, _)
FilterByThreshold(s, thr) ==
    IF s = <<>> THEN <<>>
    ELSE IF Head(s).score.v >= thr
         THEN <<Head(s)>> \o FilterByThreshold(Tail(s), thr)
         ELSE FilterByThreshold(Tail(s), thr)

\* Mutant: the comparator is (a, b) => a.score - b.score.
RECURSIVE InsertSorted_Ascending(_, _)
InsertSorted_Ascending(s, d) ==
    IF s = <<>> THEN <<d>>
    ELSE IF Head(s).score.v - d.score.v > 0
         THEN <<d>> \o s
         ELSE <<Head(s)>> \o InsertSorted_Ascending(Tail(s), d)

\* Insert d into a sequence sorted by the comparator (a, b) => b.score - a.score,
\* after every element the comparator does not order behind it (a stable sort).
RECURSIVE InsertSorted(_, _)
InsertSorted(s, d) ==
    IF s = <<>> THEN <<d>>
    ELSE IF d.score.v - Head(s).score.v > 0
         THEN <<d>> \o s
         ELSE <<Head(s)>> \o InsertSorted(Tail(s), d)

\* Array.prototype.sort((a, b) => b.score - a.score): V8's sort is stable.
RECURSIVE SortByScoreFrom(_, _)
SortByScoreFrom(s, acc) ==
    IF s = <<>> THEN acc ELSE SortByScoreFrom(Tail(s), InsertSorted(acc, Head(s)))

SortByScore(s) == SortByScoreFrom(s, <<>>)

\* The result is [threw, items]: threw when getSimilarity raised for a document.
retrieveTopK(queryVector, documents, k, thr) ==
    LET scored == Scored(queryVector, documents)
    IN  IF \E i \in 1..Len(scored) : scored[i].score.t = "throw"
        THEN [threw |-> TRUE, items |-> <<>>]
        ELSE [threw |-> FALSE,
              items |-> JsSlice(SortByScore(FilterByThreshold(scored, thr)), 0, k)]

\* --------------------------------------------------------------------- rag.js

\* (x * 100).toFixed(1): the relevance in tenths of a percent.
Relevance(score) ==
    LET v == score.v
    IN  IF v >= 0 THEN (v + (SCALE \div 2000)) \div (SCALE \div 1000)
        ELSE -((-v + (SCALE \div 2000)) \div (SCALE \div 1000))

RoleLabel(role) == IF role = USER THEN "User" ELSE "Assistant"

\* Mutant: the history block lists the newest turn first.
buildPrompt_NewestFirst(retrievedChunks, history, userMessage) ==
    [contextBlock |->
        IF Len(retrievedChunks) > 0
        THEN [i \in 1..Len(retrievedChunks) |->
                [index     |-> i,
                 title     |-> retrievedChunks[i].title,
                 relevance |-> Relevance(retrievedChunks[i].score),
                 content   |-> retrievedChunks[i].content]]
        ELSE <<"No relevant context found.">>,
     historyBlock |->
        IF Len(history) > 0
        THEN [i \in 1..Len(history) |->
                [label   |-> RoleLabel(history[Len(history) + 1 - i].role),
                 content |-> history[Len(history) + 1 - i].content]]
        ELSE <<"No previous conversation.">>,
     question |-> userMessage]

\* The prompt as its three variable blocks; the fixed instruction text and the
\* "ANSWER:" cue are the same in every prompt.
buildPrompt(retrievedChunks, history, userMessage) ==
    [contextBlock |->
        IF Len(retrievedChunks) > 0
        THEN [i \in 1..Len(retrievedChunks) |->
                [index     |-> i,
                 title     |-> retrievedChunks[i].title,
                 relevance |-> Relevance(retrievedChunks[i].score),
                 content   |-> retrievedChunks[i].content]]
        ELSE <<"No relevant context found.">>,
     historyBlock |->
        IF Len(history) > 0
        THEN [i \in 1..Len(history) |->
                [label |-> RoleLabel(history[i].role), content |-> history[i].content]]
        ELSE <<"No previous conversation.">>,
     question |-> userMessage]

FALLBACK_REPLY == Text("I'm sorry, I couldn't find relevant information", 1)

FallbackResult ==
    [reply |-> FALLBACK_REPLY, tokensUsed |-> 0, retrievedChunks |-> 0,
     scores |-> <<>>, fallback |-> TRUE]

\* x || 0 on a token count that may be undefined
OrZero(x) == IF x.t = "num" THEN x.v ELSE 0

NoUsage == [present |-> FALSE, promptTokenCount |-> Undefined,
            candidatesTokenCount |-> Undefined]

\* parseFloat(x.toFixed(4)): rounded to four decimals
ToFixed4(score) ==
    LET u == SCALE \div 10000
        v == score.v
    IN  IF v >= 0 THEN ((v + u \div 2) \div u) * u
        ELSE -(((-v + u \div 2) \div u) * u)

\* Mutant: only the prompt's tokens are counted.
GeneratedResult_PromptOnly(topChunks, reply, usageMetadata) ==
    [reply |-> reply,
     tokensUsed |-> IF usageMetadata.present
                    THEN OrZero(usageMetadata.promptTokenCount)
                    ELSE 0,
     retrievedChunks |-> Len(topChunks),
     scores |-> [i \in 1..Len(topChunks) |->
                    [title |-> topChunks[i].title,
                     score |-> ToFixed4(topChunks[i].score)]],
     fallback |-> FALSE]

GeneratedResult(topChunks, reply, usageMetadata) ==
    [reply |-> reply,
     tokensUsed |-> IF usageMetadata.present
                    THEN OrZero(usageMetadata.promptTokenCount)
                         + OrZero(usageMetadata.candidatesTokenCount)
                    ELSE 0,
     retrievedChunks |-> Len(topChunks),
     scores |-> [i \in 1..Len(topChunks) |->
                    [title |-> topChunks[i].title,
                     score |-> ToFixed4(topChunks[i].score)]],
     fallback |-> FALSE]

\* An error message, as the set of the substrings the catch block looks for
\* that occur in it, and the pipeline stage that raised it.
Err(stage, marks) == [stage |-> stage, marks |-> marks]

\* Mutant: the fallback test is never taken, every exchange goes on to generate.
NoChunks_Never(topChunks) == FALSE

\* runRAGPipeline lines 161-170: the test that selects the fallback path
NoChunks(topChunks) == Len(topChunks) = 0

\* runRAGPipeline from the return of embedContent (line 152) to the next
\* suspension: the call of generateContent, a return or a throw.
\* loc is the handler's locals; the result is [pc, loc].
PipelineAfterEmbed(loc, queryEmbedding, store, thr) ==
    LET top == retrieveTopK(queryEmbedding, store, TOP_K_RESULTS, thr)
    IN  IF top.threw
        THEN [pc  |-> "rejected",
              loc |-> [loc EXCEPT !.queryEmbedding = queryEmbedding,
                                  !.err = Err("retrieval", {})]]
        ELSE IF NoChunks(top.items)
        THEN [pc  |-> "resolved",
              loc |-> [loc EXCEPT !.queryEmbedding = queryEmbedding,
                                  !.retrieved = TRUE,
                                  !.topChunks = top.items,
                                  !.result = FallbackResult]]
        ELSE [pc  |-> "generating",
              loc |-> [loc EXCEPT !.queryEmbedding = queryEmbedding,
                                  !.retrieved = TRUE,
                                  !.topChunks = top.items,
                                  !.prompt = buildPrompt(top.items, loc.history,
                                                         loc.trimmedMessage),
                                  !.genCalls = @ + 1]]

\* runRAGPipeline lines 179-195, after generateContent returned
PipelineAfterGenerate(loc, reply, usageMetadata) ==
    [loc EXCEPT !.usageMetadata = usageMetadata,
                !.result = GeneratedResult(loc.topChunks, reply, usageMetadata)]

\* ------------------------------------------------------------------ server.js

Slots      == 1..MaxSlots
SessionIds == {"A", "B"}

\* JSON values of a request body's fields
JUndefined == [t |-> "undefined", v |-> 0]
JNumber(n) == [t |-> "number", v |-> n]
JString(s) == [t |-> "string", v |-> s]

\* !sessionId || typeof sessionId !== 'string'
BadSessionId(x) == x.t # "string" \/ x.v = ""

\* !message || typeof message !== 'string'
BadMessage(x) == x.t # "string" \/ TextLen(x.v) = 0

\* Mutant: the length of the message is not limited.
Validate_NoLengthLimit(body) ==
    IF BadSessionId(body.sessionId) THEN 400
    ELSE IF BadMessage(body.message) THEN 400
    ELSE IF TextLen(JsTrim(body.message.v)) = 0 THEN 400
    ELSE 0

\* The chat handler's input validation (lines 95-107): 0 when the body is
\* accepted, else the status of the rejection.
Validate(body) ==
    IF BadSessionId(body.sessionId) THEN 400
    ELSE IF BadMessage(body.message) THEN 400
    ELSE IF TextLen(JsTrim(body.message.v)) = 0 THEN 400
    ELSE IF TextLen(JsTrim(body.message.v)) > MAX_MESSAGE_LEN THEN 400
    ELSE 0

\* The catch block's classification by substrings of err.message
Classify(err) ==
    IF "API key" \in err.marks THEN 401
    ELSE IF "quota" \in err.marks \/ "rate" \in err.marks THEN 429
    ELSE IF "timeout" \in err.marks \/ "ETIMEDOUT" \in err.marks THEN 504
    ELSE 500

\* The handler's locals before a request is accepted. `signal` is a history
\* field of the model: what kind of failure the provider reported ("auth",
\* "rate", "timeout" or "other"); the program has only the message.
NoLocals ==
    [ex |-> [n |-> 0, to |-> ""], sessionId |-> "", trimmedMessage |-> <<>>,
     history |-> <<>>, queryEmbedding |-> Undefined,
     retrieved |-> FALSE, topChunks |-> <<>>, prompt |-> <<>>,
     usageMetadata |-> NoUsage,
     result |-> <<>>, err |-> Err("none", {}), signal |-> "none", status |-> 0,
     embedCalls |-> 0, genCalls |-> 0]

\* Mutant: the session is written back from the history read before the
\* pipeline ran, followed by the new turns.
PersistToSession_FromSnapshot(m, loc) ==
    [id \in DOMAIN m \cup {loc.sessionId} |->
        IF id = loc.sessionId
        THEN loc.history \o
             << [role |-> USER, content |-> loc.trimmedMessage, ex |-> loc.ex],
                [role |-> MODEL, content |-> loc.result.reply, ex |-> loc.ex] >>
        ELSE m[id]]

\* Mutant: every exchange is appended to one shared history.
PersistToSession_SharedKey(m, loc) ==
    addMessage(addMessage(m, "A", USER, loc.trimmedMessage, loc.ex),
               "A", MODEL, loc.result.reply, loc.ex)

\* Mutant: the reply is appended before the question.
PersistToSession_ModelFirst(m, loc) ==
    addMessage(addMessage(m, loc.sessionId, MODEL, loc.result.reply, loc.ex),
               loc.sessionId, USER, loc.trimmedMessage, loc.ex)

\* The handler has returned: its locals are gone, and what is left of the
\* exchange is the response it sent (and, for the record, the calls it made
\* and the error it caught).
Responded(loc, status) ==
    [NoLocals EXCEPT !.ex = loc.ex, !.status = status, !.result = loc.result,
                     !.err = loc.err, !.signal = loc.signal,
                     !.embedCalls = loc.embedCalls,
                     !.genCalls = loc.genCalls]

\* Lines 122-123: the two appends of a successful exchange
PersistToSession(m, loc) ==
    addMessage(addMessage(m, loc.sessionId, USER, loc.trimmedMessage, loc.ex),
               loc.sessionId, MODEL, loc.result.reply, loc.ex)

\* Mutant: the handler creates no session; a session comes to exist with its
\* first recorded turn.
ChatStart_NoAutoCreate(s, body) ==
    /\ pc[s] \in {"idle", "responded"}
    /\ nReq' = nReq + 1
    /\ IF Validate(body) # 0
       THEN /\ pc' = [pc EXCEPT ![s] = "responded"]
            /\ h' = [h EXCEPT ![s] =
                        Responded([NoLocals EXCEPT !.ex = [n |-> nReq + 1, to |-> ""]],
                                  Validate(body))]
       ELSE LET sessionId == body.sessionId.v
            IN  /\ pc' = [pc EXCEPT ![s] = "embedding"]
                /\ h' = [h EXCEPT ![s] =
                            [NoLocals EXCEPT !.ex = [n |-> nReq + 1, to |-> sessionId],
                                             !.sessionId = sessionId,
                                             !.trimmedMessage = JsTrim(body.message.v),
                                             !.history = getHistory(sessions, sessionId),
                                             !.embedCalls = 1]]
    /\ UNCHANGED <<sessions, vectorStore, threshold, rankVars, ck, pr, offlineVars>>

\* POST /api/chat, from the request to the first suspension (the await of
\* embedContent inside runRAGPipeline) or the 400 response.
ChatStart(s, body) ==
    /\ pc[s] \in {"idle", "responded"}
    /\ nReq' = nReq + 1
    /\ IF Validate(body) # 0
       THEN /\ pc' = [pc EXCEPT ![s] = "responded"]
            /\ h' = [h EXCEPT ![s] =
                        Responded([NoLocals EXCEPT !.ex = [n |-> nReq + 1, to |-> ""]],
                                  Validate(body))]
            /\ UNCHANGED sessions
       ELSE LET sessionId == body.sessionId.v
                created   == IF ~sessionExists(sessions, sessionId)
                             THEN createSession(sessions, sessionId)
                             ELSE sessions
            IN  /\ sessions' = created
                /\ pc' = [pc EXCEPT ![s] = "embedding"]
                /\ h' = [h EXCEPT ![s] =
                            [NoLocals EXCEPT !.ex = [n |-> nReq + 1, to |-> sessionId],
                                             !.sessionId = sessionId,
                                             !.trimmedMessage = JsTrim(body.message.v),
                                             !.history = getHistory(created, sessionId),
                                             !.embedCalls = 1]]
    /\ UNCHANGED <<vectorStore, threshold, rankVars, ck, pr, offlineVars>>

\* Mutant: retrieval ranks the store itself, sorting it in place.
EmbedOk_SortsStore(s, queryEmbedding) ==
    /\ pc[s] = "embedding"
    /\ LET r == PipelineAfterEmbed(h[s], queryEmbedding, vectorStore, threshold)
           ranked == SortByScore(Scored(queryEmbedding, vectorStore))
       IN  /\ pc' = [pc EXCEPT ![s] = r.pc]
           /\ h' = [h EXCEPT ![s] = r.loc]
           /\ vectorStore' = [i \in 1..Len(vectorStore) |-> vectorStore[ranked[i].id]]
    /\ UNCHANGED <<sessions, threshold, nReq, rankVars, ck, pr, offlineVars>>

\* embedContent returns queryEmbedding: retrieval, then fallback or generate.
\* retrieveTopK maps the store to a new array and filters, sorts and slices
\* that one, so the store is not written.
EmbedOk(s, queryEmbedding) ==
    /\ pc[s] = "embedding"
    /\ LET r == PipelineAfterEmbed(h[s], queryEmbedding, vectorStore, threshold)
       IN  /\ pc' = [pc EXCEPT ![s] = r.pc]
           /\ h' = [h EXCEPT ![s] = r.loc]
    /\ UNCHANGED <<sessions, vectorStore, threshold, nReq, rankVars, ck, pr, offlineVars>>

\* Mutant: a failed embedContent call is made a second time before the
\* pipeline gives up.
EmbedFail_Retries(s, signal, marks) ==
    /\ pc[s] = "embedding"
    /\ IF h[s].embedCalls < 2
       THEN /\ pc' = pc
            /\ h' = [h EXCEPT ![s].embedCalls = @ + 1]
       ELSE /\ pc' = [pc EXCEPT ![s] = "rejected"]
            /\ h' = [h EXCEPT ![s].err = Err("embedding", marks), ![s].signal = signal]
    /\ UNCHANGED <<sessions, vectorStore, threshold, nReq, rankVars, ck, pr, offlineVars>>

\* embedContent fails: lines 153-155 rethrow with the provider's message
EmbedFail(s, signal, marks) ==
    /\ pc[s] = "embedding"
    /\ pc' = [pc EXCEPT ![s] = "rejected"]
    /\ h' = [h EXCEPT ![s].err = Err("embedding", marks), ![s].signal = signal]
    /\ UNCHANGED <<sessions, vectorStore, threshold, nReq, rankVars, ck, pr, offlineVars>>

\* generateContent returns
GenOk(s, reply, usageMetadata) ==
    /\ pc[s] = "generating"
    /\ pc' = [pc EXCEPT ![s] = "resolved"]
    /\ h' = [h EXCEPT ![s] = PipelineAfterGenerate(h[s], reply, usageMetadata)]
    /\ UNCHANGED <<sessions, vectorStore, threshold, nReq, rankVars, ck, pr, offlineVars>>

\* generateContent fails: lines 180-182 rethrow with the provider's message
GenFail(s, signal, marks) ==
    /\ pc[s] = "generating"
    /\ pc' = [pc EXCEPT ![s] = "rejected"]
    /\ h' = [h EXCEPT ![s].err = Err("generation", marks), ![s].signal = signal]
    /\ UNCHANGED <<sessions, vectorStore, threshold, nReq, rankVars, ck, pr, offlineVars>>

\* generateContent returns a response whose text() throws: the provider's SDK
\* raises from text() when the prompt or the candidate was blocked. Line 184
\* is after the try of lines 177-182, so the pipeline rejects with the SDK's
\* own message, which has no "LLM API error" prefix and none of the
\* substrings the catch block looks for.
GenBlocked(s) ==
    /\ pc[s] = "generating"
    /\ pc' = [pc EXCEPT ![s] = "rejected"]
    /\ h' = [h EXCEPT ![s].err = Err("untagged", {}), ![s].signal = "other"]
    /\ UNCHANGED <<sessions, vectorStore, threshold, nReq, rankVars, ck, pr, offlineVars>>

\* Mutant: an exchange holds its session while it is in flight, and the
\* handler records only once no other exchange of that session is in flight.
Record_WaitsForSession(s) ==
    /\ pc[s] = "resolved"
    /\ \A t \in Slots \ {s} :
          ~(pc[t] \in {"embedding", "generating", "resolved", "rejected"}
            /\ h[t].sessionId = h[s].sessionId)
    /\ sessions' = PersistToSession(sessions, h[s])
    /\ pc' = [pc EXCEPT ![s] = "responded"]
    /\ h' = [h EXCEPT ![s] = Responded(h[s], 200)]
    /\ UNCHANGED <<vectorStore, threshold, nReq, rankVars, ck, pr, offlineVars>>

\* The handler resumes after `await runRAGPipeline` resolved: lines 119-136
Record(s) ==
    /\ pc[s] = "resolved"
    /\ sessions' = PersistToSession(sessions, h[s])
    /\ pc' = [pc EXCEPT ![s] = "responded"]
    /\ h' = [h EXCEPT ![s] = Responded(h[s], 200)]
    /\ UNCHANGED <<vectorStore, threshold, nReq, rankVars, ck, pr, offlineVars>>

\* Mutant: the catch block keeps the question of the failed exchange.
Catch_RecordsUserTurn(s) ==
    /\ pc[s] = "rejected"
    /\ pc' = [pc EXCEPT ![s] = "responded"]
    /\ h' = [h EXCEPT ![s] = Responded(h[s], Classify(h[s].err))]
    /\ sessions' = addMessage(sessions, h[s].sessionId, USER, h[s].trimmedMessage, h[s].ex)
    /\ UNCHANGED <<vectorStore, threshold, nReq, rankVars, ck, pr, offlineVars>>

\* The handler resumes in its catch block: lines 137-152
Catch(s) ==
    /\ pc[s] = "rejected"
    /\ pc' = [pc EXCEPT ![s] = "responded"]
    /\ h' = [h EXCEPT ![s] = Responded(h[s], Classify(h[s].err))]
    /\ UNCHANGED <<sessions, vectorStore, threshold, nReq, rankVars, ck, pr, offlineVars>>

\* POST /api/session/new: uuidv4() is an id no session has
NewSession(id) ==
    /\ ~sessionExists(sessions, id)
    /\ sessions' = createSession(sessions, id)
    /\ UNCHANGED <<vectorStore, threshold, pc, h, nReq, rankVars, ck, pr, offlineVars>>

\* Mutant: the route removes the session.
DeleteSession_Destroys(id) ==
    /\ sessions' = [x \in DOMAIN sessions \ {id} |-> sessions[x]]
    /\ UNCHANGED <<vectorStore, threshold, pc, h, nReq, rankVars, ck, pr, offlineVars>>

\* Mutant: a reset ends the session's exchanges in flight, which are then
\* answered as failed and record nothing.
DeleteSession_Cancels(id) ==
    /\ IF ~sessionExists(sessions, id)
       THEN UNCHANGED <<sessions, pc, h>>
       ELSE /\ sessions' = clearSession(sessions, id)
            /\ pc' = [s \in Slots |->
                        IF pc[s] \in {"embedding", "generating", "resolved"}
                           /\ h[s].sessionId = id
                        THEN "rejected" ELSE pc[s]]
            /\ h' = [s \in Slots |->
                        IF pc[s] \in {"embedding", "generating", "resolved"}
                           /\ h[s].sessionId = id
                        THEN [h[s] EXCEPT !.err = Err("untagged", {})]
                        ELSE h[s]]
    /\ UNCHANGED <<vectorStore, threshold, nReq, rankVars, ck, pr, offlineVars>>

\* DELETE /api/session/:id
DeleteSession(id) ==
    /\ IF ~sessionExists(sessions, id)
       THEN UNCHANGED sessions
       ELSE sessions' = clearSession(sessions, id)
    /\ UNCHANGED <<vectorStore, threshold, pc, h, nReq, rankVars, ck, pr, offlineVars>>

\* server.js lines 27-30: without GEMINI_API_KEY the process exits
BootNoKey ==
    /\ boot.pc = "start"
    /\ ~boot.apiKey
    /\ boot' = [boot EXCEPT !.pc = "exited"]
    /\ UNCHANGED <<serverVars, vectorStore, threshold, rankVars, ck, pr, file, ing>>

\* Lines 33-37: without data/vector_store.json the process exits
BootNoFile ==
    /\ boot.pc = "start"
    /\ boot.apiKey
    /\ ~file.exists
    /\ boot' = [boot EXCEPT !.pc = "exited"]
    /\ UNCHANGED <<serverVars, vectorStore, threshold, rankVars, ck, pr, file, ing>>

\* Lines 38-39 and on to app.listen: the store is the parsed file
BootLoad ==
    /\ boot.pc = "start"
    /\ boot.apiKey
    /\ file.exists
    /\ vectorStore' = file.records
    /\ boot' = [boot EXCEPT !.pc = "serving"]
    /\ UNCHANGED <<serverVars, threshold, rankVars, ck, pr, file, ing>>

\* ------------------------------------------------------------------ ingest.js

\* String.prototype.trim on a sequence of characters
RECURSIVE TrimChars(_)
TrimChars(t) ==
    IF t = <<>> THEN <<>>
    ELSE IF IsSpace(Head(t)) THEN TrimChars(Tail(t))
    ELSE IF IsSpace(t[Len(t)]) THEN TrimChars(SubSeq(t, 1, Len(t) - 1))
    ELSE t

\* Mutant: the loop advances by the whole chunk size, leaving no overlap.
chunkTextStep_NoOverlap(c) ==
    IF ~(c.start < Len(c.text))
    THEN [c EXCEPT !.pc = "returned"]
    ELSE LET end == Min(c.start + c.chunkSize, Len(c.text))
             pushed == Append(c.chunks, TrimChars(JsSlice(c.text, c.start, end)))
         IN  IF end = Len(c.text)
             THEN [c EXCEPT !.pc = "returned", !.chunks = pushed, !.iter = @ + 1]
             ELSE [c EXCEPT !.pc = "loop", !.chunks = pushed, !.iter = @ + 1,
                            !.start = c.start + c.chunkSize]

\* One evaluation of the loop test and, when it holds, one pass through the
\* body of chunkText's while loop (lines 25-30).
chunkTextStep(c) ==
    IF ~(c.start < Len(c.text))
    THEN [c EXCEPT !.pc = "returned"]
    ELSE LET end == Min(c.start + c.chunkSize, Len(c.text))
             pushed == Append(c.chunks, TrimChars(JsSlice(c.text, c.start, end)))
         IN  IF end = Len(c.text)
             THEN [c EXCEPT !.pc = "returned", !.chunks = pushed, !.iter = @ + 1]
             ELSE [c EXCEPT !.pc = "loop", !.chunks = pushed, !.iter = @ + 1,
                            !.start = c.start + (c.chunkSize - c.overlap)]

\* data/vector_store.json, absent or holding a sequence of records
NoFile == [exists |-> FALSE, records |-> <<>>]
FileWith(records) == [exists |-> TRUE, records |-> records]

\* No ingestion run
NoIngest == [pc |-> "idle", apiKey |-> FALSE, docs |-> <<>>, d |-> 0, i |-> 0,
             chunks |-> <<>>, vectorStore |-> <<>>, chunkIndex |-> 0,
             embedCalls |-> 0, failed |-> [d |-> 0, i |-> 0]]

\* The serving process: not started, or listening after a start-up that passed
NoBoot  == [pc |-> "off", apiKey |-> FALSE]
Serving == [pc |-> "serving", apiKey |-> TRUE]

\* chunkText(text, chunkSize, overlap): the loop run until it returns
RECURSIVE chunkTextRun(_)
chunkTextRun(c) ==
    IF c.pc = "returned" THEN c.chunks ELSE chunkTextRun(chunkTextStep(c))

chunkText(text, chunkSize, overlap) ==
    chunkTextRun([pc |-> "call", text |-> text, chunkSize |-> chunkSize,
                  overlap |-> overlap, start |-> 0, chunks |-> <<>>, iter |-> 0])

\* ingest(), lines 52-87, from the end of one chunk's work to the next
\* suspension: the inner loop goes on to chunk g.i of the current document,
\* the outer loop to the next document (line 53 cuts it into chunks), and
\* after the last document line 87 writes the store. The result is the run's
\* state at the next await of embedContent ("embedding") or after the write
\* ("done").
RECURSIVE IngestSeek(_)
IngestSeek(g) ==
    IF g.i < Len(g.chunks)
    THEN [g EXCEPT !.pc = "embedding", !.embedCalls = @ + 1]
    ELSE IF g.d >= Len(g.docs)
    THEN [g EXCEPT !.pc = "done"]
    ELSE IngestSeek([g EXCEPT !.d = g.d + 1, !.i = 0,
                              !.chunks = chunkText(g.docs[g.d + 1].content,
                                                   CHUNK_SIZE_CHARS,
                                                   CHUNK_OVERLAP_CHARS)])

\* writeFileSync(outputPath, JSON.stringify(vectorStore)) once the run is done
FileAfter(g, f) == IF g.pc = "done" THEN FileWith(g.vectorStore) ELSE f

\* ingest() from its call to the first suspension, lines 37-60
IngestStart ==
    /\ ing.pc = "start"
    /\ LET g == IF ~ing.apiKey THEN [ing EXCEPT !.pc = "exited"] ELSE IngestSeek(ing)
       IN  /\ ing' = g
           /\ file' = FileAfter(g, file)
    /\ UNCHANGED <<serverVars, vectorStore, threshold, rankVars, ck, pr, boot>>

\* Mutant: chunkIndex counts from 1.
EmbeddedChunk_OneBased(doc, i, chunkContent, embedding) ==
    [id |-> <<doc.id, "chunk", i + 1>>, docId |-> doc.id, title |-> doc.title,
     chunkIndex |-> i + 1, content |-> chunkContent, embedding |-> embedding]

\* Lines 63-70: the record pushed for chunk i of document doc
EmbeddedChunk(doc, i, chunkContent, embedding) ==
    [id |-> <<doc.id, "chunk", i + 1>>, docId |-> doc.id, title |-> doc.title,
     chunkIndex |-> i, content |-> chunkContent, embedding |-> embedding]

\* embedContent returns for the current chunk: lines 61-78, then on to the
\* next chunk or to the write
IngestEmbedOk(embedding) ==
    /\ ing.pc = "embedding"
    /\ LET rec == EmbeddedChunk(ing.docs[ing.d], ing.i, ing.chunks[ing.i + 1], embedding)
           g   == IngestSeek([ing EXCEPT !.vectorStore = Append(@, rec),
                                         !.chunkIndex = @ + 1,
                                         !.i = @ + 1])
       IN  /\ ing' = g
           /\ file' = FileAfter(g, file)
    /\ UNCHANGED <<serverVars, vectorStore, threshold, rankVars, ck, pr, boot>>

\* Mutant: a chunk whose embedding failed is logged and left out, and the
\* run goes on.
IngestEmbedFail_Skip ==
    /\ ing.pc = "embedding"
    /\ LET g == IngestSeek([ing EXCEPT !.failed = [d |-> ing.d, i |-> ing.i],
                                       !.i = @ + 1])
       IN  /\ ing' = g
           /\ file' = FileAfter(g, file)
    /\ UNCHANGED <<serverVars, vectorStore, threshold, rankVars, ck, pr, boot>>

\* embedContent fails for the current chunk: lines 79-82, process.exit(1)
IngestEmbedFail ==
    /\ ing.pc = "embedding"
    /\ ing' = [ing EXCEPT !.pc = "exited", !.failed = [d |-> ing.d, i |-> ing.i]]
    /\ UNCHANGED <<serverVars, vectorStore, threshold, rankVars, ck, pr, file, boot>>

\* ---------------------------------------------------------------- the inputs

Doc(i, title, embedding) ==
    [id |-> i, title |-> title, content |-> <<"content", i>>, embedding |-> embedding]

\* The serving process's store: three chunks of equal relevance to some
\* queries, one more behind them, and one record without an embedding.
ServerStore ==
    << Doc(1, "Billing", Arr(<<1, 0>>)),
       Doc(2, "Password Reset", Arr(<<4, 3>>)),
       Doc(3, "Password Reset", Arr(<<4, 3>>)),
       Doc(4, "Accounts", Arr(<<3, 4>>)),
       Doc(5, "Broken", Undefined) >>

\* What embedContent returns for a question
ServerQueries == { Arr(<<4, 3>>), Arr(<<0, 1>>), Arr(<<-1, 0>>) }

\* What the provider's failure message contains, of the substrings the catch
\* block looks for, for each kind of failure
SignalTexts(signal) ==
    CASE signal = "auth"    -> { {"API key"} }
      [] signal = "rate"    -> { {"quota"}, {"rate"} }
      [] signal = "timeout" -> { {"timeout"}, {"ETIMEDOUT"} }
      [] OTHER              -> { {} }

\* The provider SDK may put the request's URL into the message. The URL ends
\* in the method called: ":embedContent" holds none of the substrings,
\* ":generateContent" holds "rate".
UrlMarks(stage) == IF stage = "generation" THEN {"rate"} ELSE {}

\* The failures of a provider call: the kind, and the message's substrings
Failures(stage) ==
    UNION { { [signal |-> k, marks |-> m \cup u] :
                m \in SignalTexts(k), u \in {{}, UrlMarks(stage)} } :
            k \in {"auth", "rate", "timeout", "other"} }

Replies == { Text("g", 1) }
Usages  == { NoUsage,
             [present |-> TRUE, promptTokenCount |-> Num(7),
              candidatesTokenCount |-> Num(5)],
             [present |-> TRUE, promptTokenCount |-> Num(7),
              candidatesTokenCount |-> Undefined] }

Question == Text(" ", 1) \o Text("q", 2) \o Text(" ", 1)

SessionIdValues == { JString("A"), JString("B"), JString(""), JUndefined, JNumber(7) }
MessageValues ==
    { JString(Question), JString(Text("x", MAX_MESSAGE_LEN)),
      JString(Text("x", MAX_MESSAGE_LEN + 1)), JString(Text(" ", 3)),
      JString(<<>>), JUndefined, JNumber(5) }

Bodies == [sessionId : SessionIdValues, message : MessageValues]

\* The ranker harness's inputs
RankEmbeddings ==
    { Arr(<<1, 0>>), Arr(<<3, 4>>), Arr(<<4, 3>>), Arr(<<0, 0>>), Arr(<<1>>),
      Arr(<<>>), Undefined }
RankQueries    == { Arr(<<1, 0>>), Arr(<<3, 4>>), Arr(<<0, 0>>), Arr(<<>>), Undefined }
RankThresholds == { 0, 60000, DEFAULT_THRESHOLD }
RankStores ==
    UNION { { [i \in 1..n |-> Doc(i, "T", es[i])] : es \in [1..n -> RankEmbeddings] }
            : n \in 0..MaxStoreLen }

\* The chunker's inputs
Chars == { "a", " " }
ChunkTexts == UNION { [1..n -> Chars] : n \in 0..MaxTextLen }

\* The ingestion run's inputs: documents without content, with content of
\* one chunk and with content of two chunks; the embeddings the provider
\* returns; and the store file an earlier run may have left.
LongLen == 2 * CHUNK_SIZE_CHARS - CHUNK_OVERLAP_CHARS
IngestContents == { <<>>, [k \in 1..2 |-> "a"], [k \in 1..LongLen |-> "a"] }
IngestDocs ==
    UNION { { [k \in 1..n |-> [id |-> k, title |-> "T", content |-> cs[k]]] :
                cs \in [1..n -> IngestContents] } : n \in 0..MaxDocs }
IngestEmbeddings == { Arr(<<1, 0>>), Arr(<<1>>) }

\* Documents of one chunk and of three chunks, the three chunks different
\* from each other, each document with its own title
ThreeLen == 3 * CHUNK_SIZE_CHARS - 2 * CHUNK_OVERLAP_CHARS
ThreeChunks ==
    [k \in 1..ThreeLen |->
        IF k <= CHUNK_SIZE_CHARS - CHUNK_OVERLAP_CHARS THEN "a"
        ELSE IF k <= 2 * (CHUNK_SIZE_CHARS - CHUNK_OVERLAP_CHARS) THEN "b"
        ELSE "c"]
OrderContents == { <<>>, [k \in 1..2 |-> "a"], ThreeChunks }
OrderDocs ==
    UNION { { [k \in 1..n |-> [id |-> k, title |-> <<"Title", k>>, content |-> cs[k]]] :
                cs \in [1..n -> OrderContents] } : n \in 0..MaxDocs }

\* The embedding the provider returns for a chunk of these documents: one
\* vector per chunk text
EmbeddingOf(chunkContent) ==
    CASE Head(chunkContent) = "a" -> Arr(<<1, 0>>)
      [] Head(chunkContent) = "b" -> Arr(<<0, 1>>)
      [] OTHER                    -> Arr(<<3, 4>>)
OldFiles == { NoFile, FileWith(<<Doc(1, "Old", Arr(<<1, 0>>))>>) }

\* The composer harness's inputs: scored chunks in any order, and turns of
\* the two roles the store writes and of one it does not
PromptChunks ==
    { [id |-> 1, title |-> "Billing", content |-> <<"content", 1>>, score |-> Num(70000)],
      [id |-> 2, title |-> "Accounts", content |-> <<"content", 2>>, score |-> Num(91234)] }
PromptTurns ==
    { [role |-> USER, content |-> Text("q", 2), ex |-> [n |-> 1, to |-> "A"]],
      [role |-> MODEL, content |-> Text("g", 1), ex |-> [n |-> 1, to |-> "A"]],
      [role |-> "system", content |-> Text("s", 1), ex |-> [n |-> 0, to |-> "A"]] }
PromptChunkLists == UNION { [1..n -> PromptChunks] : n \in 0..MaxPromptLen }
PromptHistories  == UNION { [1..n -> PromptTurns] : n \in 0..MaxPromptLen }

\* --------------------------------------------------------- the specifications

NoRank  == [query |-> Undefined, store |-> <<>>, k |-> 0, thr |-> 0]
NoRes   == [called |-> FALSE, threw |-> FALSE, items |-> <<>>]
NoChunk == [pc |-> "idle", text |-> <<>>, chunkSize |-> 0, overlap |-> 0,
            start |-> 0, chunks |-> <<>>, iter |-> 0]
NoPrompt == [calls |-> 0, retrievedChunks |-> <<>>, history |-> <<>>,
             userMessage |-> <<>>, prompt |-> <<>>]

InitServer ==
    /\ sessions = [id \in {} |-> <<>>]
    /\ vectorStore = ServerStore
    /\ threshold = DEFAULT_THRESHOLD
    /\ pc = [s \in Slots |-> "idle"]
    /\ h = [s \in Slots |-> NoLocals]
    /\ nReq = 0
    /\ boot = Serving

\* The serving process is not part of the ranker's and the chunker's harness.
NoServer ==
    /\ sessions = [id \in {} |-> <<>>]
    /\ vectorStore = <<>>
    /\ threshold = 0
    /\ pc = <<>>
    /\ h = <<>>
    /\ nReq = 0
    /\ boot = NoBoot

Init ==
    /\ InitServer
    /\ rq = NoRank
    /\ rres = NoRes
    /\ ck = NoChunk
    /\ pr = NoPrompt
    /\ file = FileWith(ServerStore)
    /\ ing = NoIngest

\* A request takes the lowest slot that holds no request in flight.
Free(s) == pc[s] \in {"idle", "responded"}
LowestFree(s) == Free(s) /\ \A t \in Slots : t < s => ~Free(t)
InFlight == {s \in Slots : ~Free(s)}

\* Concurrent clients: up to MaxSlots chat requests in flight on two session
\* ids, interleaved with each other and with the session routes at every
\* suspension point of the handler.
ConcurrentBodies ==
    [sessionId : {JString("A"), JString("B")},
     message : {JString(Question), JString(Text(" ", 3))}]

Next ==
    \/ \E s \in Slots, body \in ConcurrentBodies :
            nReq < MaxExchanges /\ LowestFree(s) /\ ChatStart(s, body)
    \/ \E s \in Slots, q \in {Arr(<<4, 3>>), Arr(<<-1, 0>>)} : EmbedOk(s, q)
    \/ \E s \in Slots : EmbedFail(s, "timeout", {"timeout"})
    \/ \E s \in Slots, r \in Replies : GenOk(s, r, NoUsage)
    \/ \E s \in Slots : GenFail(s, "rate", {"quota"})
    \/ \E s \in Slots : Record(s)
    \/ \E s \in Slots : Catch(s)
    \/ \E id \in SessionIds : NewSession(id)
    \/ \E id \in SessionIds : DeleteSession(id)

Spec == Init /\ [][Next]_vars

\* One client talking to one session, one request at a time, for long enough
\* that the session holds more turns than getHistory returns.
LongBody == [sessionId |-> JString("A"), message |-> JString(Question)]

NextLong ==
    \/ nReq < MaxLong /\ ChatStart(1, LongBody)
    \/ \E q \in {Arr(<<4, 3>>), Arr(<<-1, 0>>)} : EmbedOk(1, q)
    \/ EmbedFail(1, "timeout", {"timeout"})
    \/ \E r \in Replies : GenOk(1, r, NoUsage)
    \/ GenFail(1, "rate", {"quota"})
    \/ Record(1)
    \/ Catch(1)
    \/ DeleteSession("A")

SpecLong == Init /\ [][NextLong]_vars

\* One request at a time, over every kind of request body, embedding,
\* provider failure and usage report.
NextSeq ==
    \/ \E body \in Bodies : nReq < MaxSeq /\ ChatStart(1, body)
    \/ \E q \in ServerQueries : EmbedOk(1, q)
    \/ \E f \in Failures("embedding") : EmbedFail(1, f.signal, f.marks)
    \/ \E r \in Replies, u \in Usages : GenOk(1, r, u)
    \/ \E f \in Failures("generation") : GenFail(1, f.signal, f.marks)
    \/ GenBlocked(1)
    \/ Record(1)
    \/ Catch(1)
    \/ \E id \in SessionIds : NewSession(id)
    \/ \E id \in SessionIds : DeleteSession(id)

SpecSeq == Init /\ [][NextSeq]_vars

\* Concurrent clients whose provider calls all settle. A pending embedContent
\* or generateContent call of an exchange eventually resolves or rejects, and
\* a handler whose await has settled is eventually resumed by the event loop;
\* neither depends on what another exchange does.
CallSettles(s) ==
    \/ EmbedFail(s, "timeout", {"timeout"})
    \/ GenFail(s, "rate", {"quota"})
    \/ GenBlocked(s)
    \/ \E r \in Replies : GenOk(s, r, NoUsage)
    \/ \E q \in {Arr(<<4, 3>>), Arr(<<-1, 0>>)} : EmbedOk(s, q)

HandlerResumes(s) == Record(s) \/ Catch(s)

NextLive ==
    \/ \E s \in Slots, body \in ConcurrentBodies :
            nReq < MaxLive /\ LowestFree(s) /\ ChatStart(s, body)
    \/ \E s \in Slots, q \in {Arr(<<4, 3>>), Arr(<<-1, 0>>)} : EmbedOk(s, q)
    \/ \E s \in Slots : EmbedFail(s, "timeout", {"timeout"})
    \/ \E s \in Slots, r \in Replies : GenOk(s, r, NoUsage)
    \/ \E s \in Slots : GenFail(s, "rate", {"quota"})
    \/ \E s \in Slots : GenBlocked(s)
    \/ \E s \in Slots : Record(s)
    \/ \E s \in Slots : Catch(s)
    \/ \E id \in SessionIds : DeleteSession(id)

Fairness ==
    \A s \in Slots : WF_vars(CallSettles(s)) /\ WF_vars(HandlerResumes(s))

SpecLive == Init /\ [][NextLive]_vars /\ Fairness

\* One call of retrieveTopK on inputs drawn from the harness's sets
RankCall ==
    /\ ~rres.called
    /\ LET r == retrieveTopK(rq.query, rq.store, rq.k, rq.thr)
       IN  rres' = [called |-> TRUE, threw |-> r.threw, items |-> r.items]
    /\ UNCHANGED <<serverVars, vectorStore, threshold, rq, ck, pr, offlineVars>>

InitRank ==
    /\ NoServer
    /\ rq \in [query : RankQueries, store : RankStores, k : 1..MaxK, thr : RankThresholds]
    /\ rres = NoRes
    /\ ck = NoChunk
    /\ pr = NoPrompt
    /\ file = NoFile
    /\ ing = NoIngest

SpecRank == InitRank /\ [][RankCall]_vars

\* One call of chunkText, the loop followed for at most MaxIter iterations
ChunkStep ==
    /\ ck.pc \in {"call", "loop"}
    /\ ck.iter < MaxIter
    /\ ck' = chunkTextStep(ck)
    /\ UNCHANGED <<serverVars, vectorStore, threshold, rankVars, pr, offlineVars>>

InitChunk ==
    /\ NoServer
    /\ rq = NoRank
    /\ rres = NoRes
    /\ ck \in [pc : {"call"}, text : ChunkTexts, chunkSize : 1..MaxChunkSize,
               overlap : 0..MaxChunkSize, start : {0}, chunks : {<<>>}, iter : {0}]
    /\ pr = NoPrompt
    /\ file = NoFile
    /\ ing = NoIngest

SpecChunk == InitChunk /\ [][ChunkStep]_vars

\* One run of ingest.js
NextIngest ==
    \/ IngestStart
    \/ \E e \in IngestEmbeddings : IngestEmbedOk(e)
    \/ IngestEmbedFail

InitIngest ==
    /\ NoServer
    /\ rq = NoRank
    /\ rres = NoRes
    /\ ck = NoChunk
    /\ pr = NoPrompt
    /\ file \in OldFiles
    /\ ing \in { [NoIngest EXCEPT !.pc = "start", !.apiKey = k, !.docs = ds] :
                    k \in BOOLEAN, ds \in IngestDocs }

SpecIngest == InitIngest /\ [][NextIngest]_vars

\* One run of ingest.js over documents of up to three chunks, with a provider
\* that returns each chunk's own embedding or fails
NextIngestOrder ==
    \/ IngestStart
    \/ ing.pc = "embedding" /\ IngestEmbedOk(EmbeddingOf(ing.chunks[ing.i + 1]))
    \/ IngestEmbedFail

InitIngestOrder ==
    /\ NoServer
    /\ rq = NoRank
    /\ rres = NoRes
    /\ ck = NoChunk
    /\ pr = NoPrompt
    /\ file \in OldFiles
    /\ ing \in { [NoIngest EXCEPT !.pc = "start", !.apiKey = TRUE, !.docs = ds] :
                    ds \in OrderDocs }

SpecIngestOrder == InitIngestOrder /\ [][NextIngestOrder]_vars

\* Calls of buildPrompt on one list of chunks and one history. The call reads
\* its arguments through map and join, which build new arrays and strings,
\* so the arrays it was given are as they were.
ComposeCall ==
    /\ pr.calls < 2
    /\ pr' = [pr EXCEPT !.calls = @ + 1,
                        !.prompt = buildPrompt(pr.retrievedChunks, pr.history,
                                               pr.userMessage)]
    /\ UNCHANGED <<serverVars, vectorStore, threshold, rankVars, ck, offlineVars>>

InitPrompt ==
    /\ NoServer
    /\ rq = NoRank
    /\ rres = NoRes
    /\ ck = NoChunk
    /\ file = NoFile
    /\ ing = NoIngest
    /\ pr \in [calls : {0}, retrievedChunks : PromptChunkLists,
                history : PromptHistories, userMessage : {JsTrim(Question)},
                prompt : {<<>>}]

SpecPrompt == InitPrompt /\ [][ComposeCall]_vars

\* The start-up of the serving process, over the store files it may find
NextBoot ==
    \/ BootNoKey
    \/ BootNoFile
    \/ BootLoad

InitBoot ==
    /\ sessions = [id \in {} |-> <<>>]
    /\ vectorStore = <<>>
    /\ threshold = DEFAULT_THRESHOLD
    /\ pc = [s \in Slots |-> "idle"]
    /\ h = [s \in Slots |-> NoLocals]
    /\ nReq = 0
    /\ boot \in { [pc |-> "start", apiKey |-> k] : k \in BOOLEAN }
    /\ file \in {NoFile} \cup { FileWith(r) : r \in RankStores }
    /\ rq = NoRank
    /\ rres = NoRes
    /\ ck = NoChunk
    /\ pr = NoPrompt
    /\ ing = NoIngest

SpecBoot == InitBoot /\ [][NextBoot]_vars

\* ------------------------------------------------------------------ claims

\* The slots whose request was accepted, and what became of it
Accepted(s)  == h[s].ex.to # ""
Failed(s)    == Accepted(s) /\ h[s].err.stage # "none"
Succeeded(s) == Accepted(s) /\ pc[s] = "responded" /\ h[s].status = 200

\* Every turn stored in any session
AllTurns ==
    UNION { {sessions[id][i] : i \in 1..Len(sessions[id])} : id \in DOMAIN sessions }

\* No stored chunk is as similar to the exchange's query vector as the threshold asks
NothingRelevant(s) ==
    \A i \in 1..Len(vectorStore) :
        getSimilarity(h[s].queryEmbedding, vectorStore[i].embedding).v < threshold

\* The result of the fallback path
IsFallbackResult(r) ==
    r.fallback = TRUE /\ r.tokensUsed = 0 /\ r.retrievedChunks = 0 /\ r.scores = <<>>

\* Once retrieval found nothing relevant, the pipeline has returned the
\* fallback result without an error and without a generate call.
FallbackResolved ==
    \A s \in Slots :
        (h[s].retrieved /\ NothingRelevant(s)) =>
            /\ pc[s] = "resolved"
            /\ h[s].err.stage = "none"
            /\ h[s].genCalls = 0
            /\ IsFallbackResult(h[s].result)

\* C1: an exchange whose query vector is below the threshold against every
\* stored chunk does not fail, never calls generate, and its result, as the
\* pipeline returns it and as the handler sends it, is fallback=true,
\* tokensUsed=0, retrievedChunks=0, scores=[].
C1_FallbackNeverGenerates ==
    /\ []FallbackResolved
    /\ [][\A s \in Slots :
            (pc'[s] # pc[s] /\ h[s].retrieved /\ NothingRelevant(s)) =>
                /\ pc'[s] = "responded"
                /\ h'[s].status = 200
                /\ h'[s].genCalls = 0
                /\ IsFallbackResult(h'[s].result)]_vars

\* An exchange was answered with the fallback result, having called embed
\* once and generate never.
C1_Witness ==
    \E s \in Slots :
        /\ pc[s] = "responded"
        /\ h[s].status = 200
        /\ IsFallbackResult(h[s].result)
        /\ h[s].embedCalls = 1
        /\ h[s].genCalls = 0

\* No stored turn belongs to a failed exchange, which is answered with an
\* error status.
C2_FailedSlotClean ==
    \A s \in Slots :
        Failed(s) =>
            /\ \A t \in AllTurns : t.ex # h[s].ex
            /\ (pc[s] = "responded" => h[s].status \in {401, 429, 504, 500})
            /\ pc[s] \in {"rejected", "responded"}

\* C2: an exchange whose embed or generate call failed appends no turn: the
\* steps that fail it leave every session as it was, no stored turn is ever
\* one of its turns, and it is answered with an error status, after which
\* its slot serves the next request.
C2_FailedExchangeAppendsNothing ==
    /\ []C2_FailedSlotClean
    /\ [][\A s \in Slots :
            (pc'[s] # pc[s] /\ (pc'[s] = "rejected" \/ pc[s] = "rejected"))
                => sessions' = sessions]_vars

\* An exchange failed, and a later exchange was served and recorded.
C2_Witness ==
    \E s, t \in Slots :
        /\ Failed(s) /\ pc[s] = "responded" /\ h[s].err.stage = "generation"
        /\ Succeeded(t) /\ h[t].ex.n > h[s].ex.n /\ h[t].ex.to = h[s].ex.to
        /\ Len(sessions[h[t].ex.to]) = 2

\* The turns of a session are pairs: a user turn followed at once by the
\* assistant turn of the same exchange, and no exchange has two pairs.
PairsOnly(turns) ==
    /\ Len(turns) % 2 = 0
    /\ \A i \in 1..Len(turns) :
          /\ (i % 2 = 1 => turns[i].role = USER /\ turns[i + 1].role = MODEL
                           /\ turns[i + 1].ex = turns[i].ex)
          /\ \A j \in 1..Len(turns) :
                (turns[j].ex = turns[i].ex /\ turns[j].role = turns[i].role) => j = i

\* C3: under every interleaving of exchanges on one session id, the stored
\* sequence is made of whole pairs (user turn, then the same exchange's assistant
\* turn), no exchange appears twice, and recording an exchange keeps every turn
\* already stored and adds exactly its own pair at the end.
C3_AppendIsAtomic ==
    /\ [](\A id \in DOMAIN sessions : PairsOnly(sessions[id]))
    /\ [][\A s \in Slots :
            (pc[s] = "resolved" /\ pc'[s] = "responded") =>
                LET id == h[s].sessionId
                    n  == Len(sessions[id])
                IN  /\ Len(sessions'[id]) = n + 2
                    /\ SubSeq(sessions'[id], 1, n) = sessions[id]
                    /\ sessions'[id][n + 1].ex = h[s].ex
                    /\ sessions'[id][n + 2].ex = h[s].ex]_vars

\* Two exchanges of one session were in flight together, and the one that
\* started later was recorded first.
C3_Witness ==
    \E id \in DOMAIN sessions :
        /\ Len(sessions[id]) = 4
        /\ sessions[id][1].ex.n > sessions[id][3].ex.n
        /\ sessions[id][1].ex.to = id /\ sessions[id][3].ex.to = id

\* Stored turns, history snapshots and prompts hold only turns of exchanges
\* addressed to their own session id.
C4_OwnTurnsOnly ==
    /\ \A id \in DOMAIN sessions :
          \A i \in 1..Len(sessions[id]) : sessions[id][i].ex.to = id
    /\ \A s \in Slots :
          (Accepted(s) /\ pc[s] # "responded") =>
             /\ \A i \in 1..Len(h[s].history) : h[s].history[i].ex.to = h[s].sessionId
             /\ (pc[s] = "generating" =>
                    /\ Len(h[s].history) > 0 =>
                          Len(h[s].prompt.historyBlock) = Len(h[s].history)
                    /\ \A i \in 1..Len(h[s].history) :
                          h[s].prompt.historyBlock[i].content = h[s].history[i].content)

\* C4: a session's turns, and the history and prompt of an exchange, hold
\* only turns of exchanges addressed to that session id, and a step of an
\* exchange addressed to one id leaves the turns of every other id as they were.
C4_SessionsIsolated ==
    /\ []C4_OwnTurnsOnly
    /\ [][\A s \in Slots :
            (pc'[s] # pc[s] \/ h'[s] # h[s]) =>
                \A id \in DOMAIN sessions :
                    id # h'[s].ex.to =>
                        id \in DOMAIN sessions' /\ sessions'[id] = sessions[id]]_vars

\* An exchange on A is suspended in generate, with A's history in its prompt,
\* while an exchange on B that started after it has already been recorded.
C4_Witness ==
    \E s \in Slots :
        /\ pc[s] = "generating" /\ h[s].sessionId = "A"
        /\ Len(h[s].history) > 0
        /\ "B" \in DOMAIN sessions /\ Len(sessions["B"]) > 0
        /\ sessions["B"][1].ex.n > h[s].ex.n

\* C5: getHistory(id) is the last min(10, n) of the session's n stored turns,
\* in their stored order, beginning with a user turn and ending with an
\* assistant turn, and is empty for an id that has no session.
C5_HistoryIsLastTen ==
    \A id \in SessionIds :
        LET hist == getHistory(sessions, id)
        IN  IF id \notin DOMAIN sessions THEN hist = <<>>
            ELSE LET n == Len(sessions[id])
                     k == IF n < 10 THEN n ELSE 10
                 IN  /\ Len(hist) = k
                     /\ \A i \in 1..k : hist[i] = sessions[id][n - k + i]
                     /\ (k > 0 => hist[1].role = USER /\ hist[k].role = MODEL)

\* Seven exchanges were recorded, and the history is their last five pairs.
C5_Witness ==
    /\ "A" \in DOMAIN sessions
    /\ Len(sessions["A"]) = 14
    /\ Len(getHistory(sessions, "A")) = 10
    /\ getHistory(sessions, "A")[1] = sessions["A"][5]
    /\ getHistory(sessions, "A")[1].ex.n = 3
    /\ "B" \notin DOMAIN sessions

\* No leading or trailing whitespace
IsTrimmed(t) == t = <<>> \/ (~IsSpace(t[1].ch) /\ ~IsSpace(t[Len(t)].ch))

\* C6: recording an exchange appends the user turn holding the trimmed
\* question and then the assistant turn holding the reply that is sent to the
\* caller, on the generated and on the fallback path alike.
C6_UserThenAssistant ==
    [][\A s \in Slots :
        (pc[s] = "resolved" /\ pc'[s] = "responded") =>
            LET id == h[s].sessionId
                n  == Len(sessions[id])
                u  == sessions'[id][n + 1]
                a  == sessions'[id][n + 2]
            IN  /\ Len(sessions'[id]) = n + 2
                /\ u.role = USER /\ u.content = h[s].trimmedMessage
                /\ IsTrimmed(u.content) /\ TextLen(u.content) > 0
                /\ a.role = MODEL /\ a.content = h'[s].result.reply
                /\ h'[s].status = 200
                /\ (h'[s].result.fallback <=> a.content = FALLBACK_REPLY)
                /\ (~h'[s].result.fallback => a.content \in Replies)]_vars

\* One exchange was recorded with the fallback text and another with a
\* generated reply.
C6_Witness ==
    \E s, t \in Slots :
        /\ Succeeded(s) /\ h[s].result.fallback
        /\ Succeeded(t) /\ ~h[t].result.fallback
        /\ h[s].ex.to = "A" /\ h[t].ex.to = "B"
        /\ Len(sessions["A"]) = 2 /\ Len(sessions["B"]) = 2
        /\ sessions["A"][2].content = FALLBACK_REPLY
        /\ sessions["B"][2].content = h[t].result.reply
        /\ sessions["B"][1].content = JsTrim(Question)

\* What retrieveTopK returned: at most k items, each with a score of at
\* least the threshold
WithinKAndThreshold ==
    /\ Len(rres.items) <= rq.k
    /\ \A i \in 1..Len(rres.items) : rres.items[i].score.v >= rq.thr

\* C7 as stated: at most k items, every score >= threshold, and the scores
\* strictly descending.
C7_StrictlyDescending ==
    rres.called =>
        /\ WithinKAndThreshold
        /\ \A i, j \in 1..Len(rres.items) :
              i < j => rres.items[i].score.v > rres.items[j].score.v

\* C7, amended: at most k items, every score >= threshold, and the scores
\* descending, items of equal score in the order the store holds them.
C7_DescendingTiesInStoreOrder ==
    rres.called =>
        /\ WithinKAndThreshold
        /\ \A i, j \in 1..Len(rres.items) :
              i < j =>
                 \/ rres.items[i].score.v > rres.items[j].score.v
                 \/ /\ rres.items[i].score.v = rres.items[j].score.v
                    /\ rres.items[i].id < rres.items[j].id

\* Two chunks of equal score were returned together with a lower one.
C7_Witness ==
    /\ rres.called
    /\ Len(rres.items) = 3
    /\ rres.items[1].score.v = rres.items[2].score.v
    /\ rres.items[2].score.v > rres.items[3].score.v

\* The positions of the store whose similarity to the query is at least the threshold
Eligible ==
    {i \in 1..Len(rq.store) : getSimilarity(rq.query, rq.store[i].embedding).v >= rq.thr}

Returned == {rres.items[i].id : i \in 1..Len(rres.items)}

\* C8: a chunk whose similarity equals the threshold is eligible, and
\* retrieveTopK returns min(k, m) of the m eligible chunks, none twice and none
\* scoring below an eligible chunk it left out.
C8_InclusiveAndComplete ==
    rres.called =>
        /\ Len(rres.items) = (IF Cardinality(Eligible) < rq.k
                              THEN Cardinality(Eligible) ELSE rq.k)
        /\ Cardinality(Returned) = Len(rres.items)
        /\ Returned \subseteq Eligible
        /\ \A i \in 1..Len(rres.items) :
              rres.items[i].score =
                  getSimilarity(rq.query, rq.store[rres.items[i].id].embedding)
        /\ \A i \in Eligible \ Returned : \A j \in 1..Len(rres.items) :
              getSimilarity(rq.query, rq.store[i].embedding).v <= rres.items[j].score.v

\* A one-chunk store whose chunk scores exactly the threshold yields that chunk.
C8_Witness ==
    /\ rres.called
    /\ Len(rq.store) = 1
    /\ rq.thr > 0
    /\ getSimilarity(rq.query, rq.store[1].embedding).v = rq.thr
    /\ Len(rres.items) = 1
    /\ rres.items[1].id = 1

IsZeroVector(x) == x.t = "array" /\ Len(x.v) > 0 /\ \A i \in 1..Len(x.v) : x.v[i] = 0

\* A missing vector, two vectors of different length, or a zero vector (for
\* which the quotient is NaN)
Degenerate(a, b) ==
    \/ a.t = "undefined" \/ b.t = "undefined"
    \/ Len(a.v) # Len(b.v)
    \/ IsZeroVector(a) \/ IsZeroVector(b)

\* C9: getSimilarity is the number 0 for a missing vector, vectors of different
\* length and a zero vector; it is never NaN and never throws, so retrieveTopK
\* returns for every store, and a chunk that is not degenerate is returned
\* whenever it is eligible and k leaves room for it.
C9_DegenerateIsZero ==
    rres.called =>
        /\ ~rres.threw
        /\ \A i \in 1..Len(rq.store) :
              LET sim == getSimilarity(rq.query, rq.store[i].embedding)
              IN  /\ sim.t \notin {"nan", "throw"}
                  /\ sim.v \in (-SCALE)..SCALE
                  /\ Degenerate(rq.query, rq.store[i].embedding) => sim = Num(0)
                  /\ (~Degenerate(rq.query, rq.store[i].embedding)
                      /\ Cardinality(Eligible) <= rq.k /\ sim.v >= rq.thr)
                        => i \in Returned

\* A store holding a chunk without an embedding, a chunk of another
\* dimension and a good chunk: the good chunk is returned.
C9_Witness ==
    /\ rres.called
    /\ ~rres.threw
    /\ \E i, j, g \in 1..Len(rq.store) :
          /\ rq.store[i].embedding.t = "undefined"
          /\ rq.store[j].embedding.t = "array"
          /\ rq.query.t = "array"
          /\ Len(rq.store[j].embedding.v) # Len(rq.query.v)
          /\ ~Degenerate(rq.query, rq.store[g].embedding)
          /\ g \in Returned
          /\ i \notin Returned /\ j \notin Returned

\* C10: chunkText with chunkSize <= overlap fails with a configuration error
\* before it enters its loop, and with 0 < overlap < chunkSize it needs no
\* more iterations than the text has characters.
C10_DegenerateFailsFast ==
    /\ (ck.pc # "idle" /\ ck.chunkSize <= ck.overlap) => ck.pc \in {"call", "error"}
    /\ (ck.pc # "idle" /\ 0 < ck.overlap /\ ck.overlap < ck.chunkSize)
          => ck.iter <= Len(ck.text)

\* The chunks put together again: the first chunk, then every later chunk
\* without its first `overlap` characters, which repeat the end of the chunk
\* before it.
RECURSIVE WithoutOverlap(_, _)
WithoutOverlap(chunks, overlap) ==
    IF chunks = <<>> THEN <<>>
    ELSE JsSlice(Head(chunks), overlap, Len(Head(chunks)))
         \o WithoutOverlap(Tail(chunks), overlap)

Reassembled(chunks, overlap) ==
    IF chunks = <<>> THEN <<>> ELSE Head(chunks) \o WithoutOverlap(Tail(chunks), overlap)

IsSuffix(t, text) ==
    Len(t) <= Len(text) /\ JsSlice(text, Len(text) - Len(t), Len(text)) = t

\* C11: for 0 < overlap < chunkSize, the chunks chunkText returns, put together
\* with the overlaps removed, are the text, character for character, and the
\* last chunk is the end of the text.
C11_ChunksReassembleText ==
    (ck.pc = "returned" /\ 0 < ck.overlap /\ ck.overlap < ck.chunkSize) =>
        /\ Reassembled(ck.chunks, ck.overlap) = ck.text
        /\ ck.chunks # <<>> => IsSuffix(ck.chunks[Len(ck.chunks)], ck.text)

\* The number of chunks of the first n documents
RECURSIVE ChunksIn(_, _)
ChunksIn(docs, n) ==
    IF n = 0 THEN 0
    ELSE ChunksIn(docs, n - 1)
         + Len(chunkText(docs[n].content, CHUNK_SIZE_CHARS, CHUNK_OVERLAP_CHARS))

\* The run ended at a failed embedding call
IngestAborted == ing.pc = "exited" /\ ing.failed.d > 0

\* A failed call ends the run at once, with every earlier chunk embedded and
\* none after it; a run that ends otherwise has embedded every chunk and
\* written them all.
IngestAllOrNothing ==
    /\ ing.failed.d > 0 => ing.pc = "exited"
    /\ IngestAborted =>
          /\ ing.embedCalls = ChunksIn(ing.docs, ing.failed.d - 1) + ing.failed.i + 1
          /\ Len(ing.vectorStore) = ing.embedCalls - 1
    /\ ing.pc = "done" =>
          /\ ing.failed.d = 0
          /\ Len(ing.vectorStore) = ChunksIn(ing.docs, Len(ing.docs))
          /\ file = FileWith(ing.vectorStore)

\* C12: a failed embedding call aborts the ingestion run at that call: the
\* run takes no further step (no later chunk is embedded, the failed chunk is
\* not passed over), and only a run that reaches its end writes the store
\* file, so the file is as it was before an aborted run.
C12_IngestAbortsOnEmbedFailure ==
    /\ []IngestAllOrNothing
    /\ [][/\ ing.pc # "exited"
          /\ ing'.pc # "done" => file' = file]_vars

\* The run was aborted at a chunk after it had embedded others and before
\* it reached the remaining ones, and there is no store file.
C12_Witness ==
    /\ IngestAborted
    /\ Len(ing.vectorStore) >= 1
    /\ ing.embedCalls < ChunksIn(ing.docs, Len(ing.docs))
    /\ ~file.exists

\* The embeddings of the store's records all have one length
SameDimension(store) ==
    \A i, j \in 1..Len(store) :
        (store[i].embedding.t = "array" /\ store[j].embedding.t = "array") =>
            Len(store[i].embedding.v) = Len(store[j].embedding.v)

\* C13: the serving process listens only with a store whose embeddings all
\* have the same length; on a file whose records differ in length the
\* start-up ends the process.
C13_LoadValidatesDimensions ==
    /\ boot.pc = "serving" => SameDimension(vectorStore)
    /\ (file.exists /\ ~SameDimension(file.records)) => boot.pc \in {"start", "exited"}

\* A request body outside the contract: the sessionId missing or not a
\* string, the message missing, not a string, empty after trimming or longer
\* than 2000 characters after trimming
OutsideContract(body) ==
    \/ body.sessionId.t # "string"
    \/ body.message.t # "string"
    \/ TextLen(JsTrim(body.message.v)) = 0
    \/ TextLen(JsTrim(body.message.v)) > MAX_MESSAGE_LEN

\* A rejected request made no provider call and named no session; a request
\* that went on to the provider is within the contract.
RejectedBeforeProvider ==
    /\ \A body \in Bodies : OutsideContract(body) => Validate(body) = 400
    /\ \A s \in Slots :
          /\ h[s].status = 400 =>
                h[s].embedCalls = 0 /\ h[s].genCalls = 0 /\ ~Accepted(s)
          /\ h[s].embedCalls > 0 => Accepted(s)
          /\ (Accepted(s) /\ pc[s] # "responded") =>
                /\ h[s].sessionId # ""
                /\ TextLen(h[s].trimmedMessage) \in 1..MAX_MESSAGE_LEN
                /\ IsTrimmed(h[s].trimmedMessage)

\* C14: a chat request outside the contract is answered 400 before any
\* provider call: embed and generate are not called for it, and the step that
\* rejects it creates no session and appends no turn.
C14_RejectedBeforeProviderCall ==
    /\ []RejectedBeforeProvider
    /\ [][\A s \in Slots :
            (h'[s] # h[s] /\ h'[s].status = 400) => sessions' = sessions]_vars

\* Two requests were rejected, and there is still no session.
C14_Witness ==
    \E s \in Slots :
        /\ pc[s] = "responded" /\ h[s].status = 400
        /\ h[s].ex.n = 2
        /\ DOMAIN sessions = {}

\* The status each kind of provider failure is to be surfaced as
StatusOf(signal) ==
    CASE signal = "auth"    -> 401
      [] signal = "rate"    -> 429
      [] signal = "timeout" -> 504
      [] OTHER              -> 500

\* C15: an exchange whose embed or generate call failed is answered with the
\* status of the kind of failure the provider reported: 401 for invalid
\* credentials, 429 for a quota or rate limit, 504 for a timeout, 500 for
\* anything else.
C15_ClassifiedBySignal ==
    \A s \in Slots :
        (pc[s] = "responded" /\ h[s].signal # "none") =>
            h[s].status = StatusOf(h[s].signal)

\* C16: the vector store stays what was loaded: no step of the serving
\* process, under any interleaving of exchanges, changes its records, their
\* order or their embeddings.
C16_StoreReadOnly ==
    /\ [](vectorStore = file.records)
    /\ [][vectorStore' = vectorStore]_vars

\* Two exchanges in flight have both ranked the store, one of them putting a
\* later record first, and the store is as loaded.
C16_Witness ==
    /\ vectorStore = ServerStore
    /\ \E s, t \in Slots :
          /\ s # t
          /\ h[s].retrieved /\ h[t].retrieved
          /\ Len(h[s].topChunks) >= 2
          /\ h[s].topChunks[1].id # vectorStore[1].id

\* clearSession on a session the store holds: the session is still there,
\* with no turns, and nothing else has changed.
ResetKeepsIdentity ==
    \A id \in DOMAIN sessions :
        LET m == clearSession(sessions, id)
        IN  /\ sessionExists(m, id)
            /\ getHistory(m, id) = <<>>
            /\ getSessionCount(m) = getSessionCount(sessions)
            /\ \A o \in DOMAIN sessions \ {id} : sessionExists(m, o) /\ m[o] = sessions[o]

\* C17: resetting an existing session empties its turns and keeps it:
\* afterwards its history is empty, it exists, the count is the same, and
\* every other session has the turns it had. This holds of clearSession on
\* every reachable store and of every step of the DELETE route that changes
\* the store.
C17_ResetEmptiesAndKeeps ==
    /\ []ResetKeepsIdentity
    /\ [][(pc' = pc /\ h' = h /\ sessions' # sessions
            /\ DOMAIN sessions' \subseteq DOMAIN sessions) =>
              /\ DOMAIN sessions' = DOMAIN sessions
              /\ \E id \in DOMAIN sessions :
                    /\ getHistory(sessions', id) = <<>>
                    /\ sessions[id] # <<>>
                    /\ \A o \in DOMAIN sessions \ {id} : sessions'[o] = sessions[o]]_vars

\* Session A was reset after the second exchange was recorded in it, and
\* session B still has the turns of the first.
C17_Witness ==
    /\ DOMAIN sessions = {"A", "B"}
    /\ sessions["A"] = <<>>
    /\ Len(sessions["B"]) = 2
    /\ \E s \in Slots : Succeeded(s) /\ h[s].ex.to = "A" /\ h[s].ex.n = 2

\* C18: clearSession on an id that has no session changes nothing: the id
\* still has no session and the count is the same.
C18_ResetUnknownIsNoOp ==
    \A id \in SessionIds :
        ~sessionExists(sessions, id) =>
            LET m == clearSession(sessions, id)
            IN  /\ m = sessions
                /\ ~sessionExists(m, id)
                /\ getSessionCount(m) = getSessionCount(sessions)

\* Every exchange that was accepted has its session
ReferencedExists ==
    \A s \in Slots : Accepted(s) => sessionExists(sessions, h[s].ex.to)

\* C19: a session exists from its first reference on: a chat request that is
\* accepted has its session, a step that adds sessions adds one empty session,
\* and no step removes a session, so the count never decreases.
C19_SessionsNeverDestroyed ==
    /\ []ReferencedExists
    /\ [][/\ DOMAIN sessions \subseteq DOMAIN sessions'
          /\ getSessionCount(sessions') >= getSessionCount(sessions)
          /\ \A id \in DOMAIN sessions' \ DOMAIN sessions :
                /\ sessions'[id] = <<>>
                /\ getSessionCount(sessions') = getSessionCount(sessions) + 1]_vars

\* Two sessions exist, and one of them was reset after an exchange was
\* recorded in it.
C19_Witness ==
    /\ getSessionCount(sessions) = 2
    /\ \E s \in Slots :
          /\ Succeeded(s)
          /\ sessionExists(sessions, h[s].ex.to)
          /\ sessions[h[s].ex.to] = <<>>

\* The token counts the generation call reported, added up
ReportedTokens(u) ==
    IF ~u.present THEN 0
    ELSE (IF u.promptTokenCount.t = "num" THEN u.promptTokenCount.v ELSE 0)
         + (IF u.candidatesTokenCount.t = "num" THEN u.candidatesTokenCount.v ELSE 0)

ExchangeOrder ==
    { <<"idle", "responded">>, <<"idle", "embedding">>, <<"responded", "embedding">>,
      <<"embedding", "generating">>, <<"embedding", "resolved">>,
      <<"embedding", "rejected">>,
      <<"generating", "resolved">>, <<"generating", "rejected">>,
      <<"resolved", "responded">>, <<"rejected", "responded">> }

\* An exchange that has failed failed in its embed call, before retrieval and
\* tagged as an embedding error, or in its generate call, after retrieval and
\* composition and tagged as a generation error.
FailedTagged ==
    \A s \in Slots :
        pc[s] = "rejected" =>
            \/ /\ h[s].err.stage = "embedding"
               /\ ~h[s].retrieved /\ h[s].genCalls = 0
            \/ /\ h[s].err.stage = "generation"
               /\ h[s].retrieved /\ Len(h[s].topChunks) > 0 /\ h[s].genCalls = 1

\* C21: every exchange goes through embed, retrieval, then the fallback or the
\* composition and the generate call, then recording, then the answer:
\* retrieval runs only on the vector a successful embed call returned,
\* generate is called only with the prompt composed from a non-empty
\* retrieval, the turns are recorded only once the reply is determined, and
\* an exchange fails only in its embed call (tagged as an embedding error) or
\* in its generate call (tagged as a generation error).
C21_ExchangeOrderAndFailures ==
    /\ []FailedTagged
    /\ [][\A s \in Slots :
            pc'[s] # pc[s] =>
                /\ <<pc[s], pc'[s]>> \in ExchangeOrder
                /\ pc'[s] = "embedding" =>
                      /\ h'[s].embedCalls = 1 /\ h'[s].genCalls = 0
                      /\ ~h'[s].retrieved
                /\ (pc[s] = "embedding" /\ pc'[s] \in {"generating", "resolved"}) =>
                      /\ h'[s].queryEmbedding.t = "array"
                      /\ h'[s].retrieved
                      /\ h'[s].topChunks =
                            retrieveTopK(h'[s].queryEmbedding, vectorStore,
                                         TOP_K_RESULTS, threshold).items
                      /\ h'[s].err.stage = "none"
                /\ pc'[s] = "generating" =>
                      /\ Len(h'[s].topChunks) > 0
                      /\ h'[s].prompt = buildPrompt(h'[s].topChunks, h'[s].history,
                                                    h'[s].trimmedMessage)
                      /\ h'[s].genCalls = 1
                /\ (pc[s] = "embedding" /\ pc'[s] = "resolved") =>
                      /\ h'[s].topChunks = <<>>
                      /\ IsFallbackResult(h'[s].result)
                      /\ h'[s].genCalls = 0
                /\ (pc[s] = "generating" /\ pc'[s] = "resolved") =>
                      /\ ~h'[s].result.fallback
                      /\ h'[s].err.stage = "none"
                /\ pc'[s] = "rejected" =>
                      \/ pc[s] = "embedding" /\ h'[s].err.stage = "embedding"
                      \/ pc[s] = "generating" /\ h'[s].err.stage = "generation"
                /\ pc[s] = "resolved" =>
                      /\ h'[s].status = 200
                      /\ sessions'[h[s].sessionId][Len(sessions'[h[s].sessionId])].content
                            = h[s].result.reply
                /\ pc[s] = "rejected" =>
                      /\ sessions' = sessions
                      /\ h'[s].status \in {401, 429, 504, 500}
                /\ pc[s] # "resolved" => sessions' = sessions \/ pc'[s] = "embedding"]_vars

\* An exchange in flight: accepted and not yet answered
Pending(s) == pc[s] \in {"embedding", "generating", "resolved", "rejected"}

\* The answer of exchange number n sent from slot s: the result (DONE) or a
\* classified error (FAILED), and not both
Done(s, n) ==
    /\ pc[s] = "responded" /\ h[s].ex.n = n
    /\ h[s].status = 200 /\ h[s].err.stage = "none"
    /\ DOMAIN h[s].result = {"reply", "tokensUsed", "retrievedChunks", "scores", "fallback"}

FailedWith(s, n) ==
    /\ pc[s] = "responded" /\ h[s].ex.n = n
    /\ h[s].status \in {401, 429, 504, 500} /\ h[s].err.stage # "none"
    /\ h[s].result = <<>>

\* An exchange in flight can always take its next step, whatever the other
\* exchanges are doing: its provider call can settle, and once it has, the
\* handler can record and answer, or answer the failure.
NeverBlocked ==
    \A s \in Slots :
        /\ pc[s] \in {"embedding", "generating"} => ENABLED CallSettles(s)
        /\ pc[s] = "resolved" => ENABLED Record(s)
        /\ pc[s] = "rejected" => ENABLED Catch(s)

\* C22: when every embed and generate call settles, every accepted exchange
\* is eventually answered, with the result or with a classified error and
\* never with both, under every interleaving with other exchanges; and no
\* exchange in flight ever has to wait for another exchange.
C22_EveryExchangeAnswered ==
    /\ []NeverBlocked
    /\ [](\A s \in Slots : \A n \in 1..MaxLive : ~(Done(s, n) /\ FailedWith(s, n)))
    /\ \A s \in Slots : \A n \in 1..MaxLive :
          (Pending(s) /\ h[s].ex.n = n) ~> (Done(s, n) \/ FailedWith(s, n))

\* Two exchanges of one session are in flight together, both with their
\* pipeline's result waiting to be recorded.
C22_Witness ==
    \E s, t \in Slots :
        /\ s # t
        /\ pc[s] = "resolved" /\ pc[t] = "resolved"
        /\ h[s].sessionId = h[t].sessionId

\* The provider calls an exchange has made: none for a rejected request, one
\* embed call for an accepted one, and one generate call once its prompt was
\* composed, none before and none on the fallback path.
CallsOnce ==
    \A s \in Slots :
        /\ ~Accepted(s) => h[s].embedCalls = 0 /\ h[s].genCalls = 0
        /\ Accepted(s) => h[s].embedCalls = 1 /\ h[s].genCalls \in {0, 1}
        /\ pc[s] = "embedding" => h[s].genCalls = 0
        /\ pc[s] = "generating" => h[s].genCalls = 1
        /\ (pc[s] = "rejected" /\ h[s].err.stage = "embedding") => h[s].genCalls = 0

\* C23: the pipeline makes no second attempt: an exchange calls embed exactly
\* once and generate at most once, and a call that fails, by a timeout or
\* otherwise, takes the exchange to its failure in that step, from which the
\* only step is the error answer, with no further call.
C23_NoRetry ==
    /\ []CallsOnce
    /\ [][\A s \in Slots :
            /\ (pc[s] \in {"embedding", "generating"} /\ h'[s] # h[s]
                /\ h'[s].err.stage # "none") =>
                    /\ pc'[s] = "rejected"
                    /\ h'[s].embedCalls = h[s].embedCalls
                    /\ h'[s].genCalls = h[s].genCalls
            /\ (pc[s] = "rejected" /\ h'[s] # h[s]) =>
                    /\ pc'[s] = "responded"
                    /\ h'[s].status \in {401, 429, 504, 500}
                    /\ h'[s].embedCalls = h[s].embedCalls
                    /\ h'[s].genCalls = h[s].genCalls
            /\ (pc[s] \in {"embedding", "generating"} /\ h'[s] # h[s]) =>
                    pc'[s] # pc[s]]_vars

\* The second request's embed call timed out and it was answered 504 after
\* that one call.
C23_Witness ==
    \E s \in Slots :
        /\ pc[s] = "responded" /\ h[s].ex.n = 2
        /\ h[s].signal = "timeout" /\ h[s].err.stage = "embedding"
        /\ h[s].status = 504
        /\ h[s].embedCalls = 1 /\ h[s].genCalls = 0

\* C24: the prompt of an exchange is composed from the session's history as
\* it is at the step that composes it: the last turns the session holds then,
\* those recorded by another exchange of the session during this exchange's
\* embed call included.
C24_PromptFromCurrentHistory ==
    [][\A s \in Slots :
        (pc[s] = "embedding" /\ pc'[s] = "generating") =>
            h'[s].prompt = buildPrompt(h'[s].topChunks,
                                       getHistory(sessions, h[s].sessionId),
                                       h[s].trimmedMessage)]_vars

\* The exchanges that have turns in a session
RecordedIn(id) == { sessions[id][i].ex : i \in 1..Len(sessions[id]) }

\* A session holds two turns for each exchange recorded in it, however many
\* there are; getHistory returns the last ten of them at most, and an append
\* keeps every turn the session holds.
StoresEveryTurn ==
    \A id \in DOMAIN sessions :
        LET n    == Len(sessions[id])
            hist == getHistory(sessions, id)
            m    == addMessage(sessions, id, USER, Question, [n |-> 0, to |-> id])
        IN  /\ n = 2 * Cardinality(RecordedIn(id))
            /\ Len(hist) = Min(n, 10)
            /\ hist = SubSeq(sessions[id], n - Len(hist) + 1, n)
            /\ Len(m[id]) = n + 1
            /\ SubSeq(m[id], 1, n) = sessions[id]

\* C25: append deletes nothing. Every successful exchange adds its two turns
\* behind all the turns its session holds, those older than the last ten
\* included, so without a reset a session holds two turns for each of its
\* successful exchanges, beyond any fixed length; only a reset takes turns
\* away; and getHistory returns the last ten at most, the older ones staying
\* in the store.
C25_AppendKeepsEveryTurn ==
    /\ []StoresEveryTurn
    /\ [][\A s \in Slots :
            (pc[s] = "resolved" /\ pc'[s] = "responded") =>
                LET id == h[s].sessionId
                    n  == Len(sessions[id])
                IN  /\ h'[s].status = 200
                    /\ Len(sessions'[id]) = n + 2
                    /\ SubSeq(sessions'[id], 1, n) = sessions[id]
                    /\ h[s].ex \notin RecordedIn(id)]_vars
    /\ [][\A id \in DOMAIN sessions :
            IF pc' = pc /\ h' = h
            THEN sessions'[id] \in {sessions[id], <<>>}
            ELSE /\ Len(sessions'[id]) >= Len(sessions[id])
                 /\ SubSeq(sessions'[id], 1, Len(sessions[id])) = sessions[id]]_vars

\* Seven exchanges in a row were recorded without a reset: the session holds
\* their fourteen turns, the first exchange's among them, and getHistory
\* returns ten, beginning with the third exchange's.
C25_Witness ==
    /\ "A" \in DOMAIN sessions
    /\ Cardinality(RecordedIn("A")) = 7
    /\ Len(sessions["A"]) = 14
    /\ sessions["A"][1].ex.n = 1 /\ sessions["A"][4].ex.n = 2
    /\ Len(getHistory(sessions, "A")) = 10
    /\ \A i \in 1..10 : getHistory(sessions, "A")[i].ex.n >= 3

\* The call's parameters are valid: 0 < overlap < size
ValidChunking == 0 < ck.overlap /\ ck.overlap < ck.chunkSize

\* The i-th window (0-based) of the call's text: from i * (size - overlap),
\* size characters or up to the end of the text
WindowStart(i) == i * (ck.chunkSize - ck.overlap)
WindowEnd(i)   == Min(WindowStart(i) + ck.chunkSize, Len(ck.text))
Window(i)      == JsSlice(ck.text, WindowStart(i), WindowEnd(i))

\* What holds of the chunks of a call with valid parameters whether the
\* chunks are trimmed or not: none for the empty text and at least one
\* otherwise; the i-th chunk is the i-th window, trimmed; the windows go up to
\* the end of the text; every window but the last has size characters, and
\* the next one starts overlap characters before its end.
ChunksAreWindows ==
    LET n == Len(ck.chunks)
    IN  /\ ck.chunks = chunkText(ck.text, ck.chunkSize, ck.overlap)
        /\ (Len(ck.text) = 0 <=> n = 0)
        /\ n > 0 => WindowEnd(n - 1) = Len(ck.text)
        /\ \A i \in 0..(n - 1) :
              /\ ck.chunks[i + 1] = TrimChars(Window(i))
              /\ Len(Window(i)) \in 1..ck.chunkSize
              /\ Len(ck.chunks[i + 1]) <= Len(Window(i))
              /\ i < n - 1 =>
                    /\ Len(Window(i)) = ck.chunkSize
                    /\ WindowStart(i + 1) = WindowEnd(i) - ck.overlap
                    /\ WindowEnd(i + 1) > WindowEnd(i)
                    /\ JsSlice(Window(i), ck.chunkSize - ck.overlap, ck.chunkSize)
                          = JsSlice(Window(i + 1), 0, ck.overlap)

RECURSIVE ChunksInOrder(_)
ChunksInOrder(docs) ==
    IF docs = <<>> THEN <<>>
    ELSE LET doc == Head(docs)
             c   == chunkText(doc.content, CHUNK_SIZE_CHARS, CHUNK_OVERLAP_CHARS)
         IN  [i \in 1..Len(c) |->
                [docId |-> doc.id, title |-> doc.title, chunkIndex |-> i - 1,
                 content |-> c[i]]]
             \o ChunksInOrder(Tail(docs))

\* The record is the record of that chunk
RecordOf(rec, chunk) ==
    /\ rec.docId = chunk.docId /\ rec.title = chunk.title
    /\ rec.chunkIndex = chunk.chunkIndex /\ rec.content = chunk.content
    /\ rec.embedding = EmbeddingOf(chunk.content)

\* The run has made one embedding call for each record it holds, and one more
\* when it is waiting for a call; the records are those of the first chunks
\* in order, and the call it waits for is for the chunk after them. A run
\* that came to its end has made one call per chunk and has written one
\* record per chunk, in that order.
IngestInOrder ==
    LET chunks == ChunksInOrder(ing.docs)
        n      == Len(ing.vectorStore)
    IN  /\ n <= Len(chunks)
        /\ \A j \in 1..n : RecordOf(ing.vectorStore[j], chunks[j])
        /\ ing.pc = "embedding" =>
              /\ ing.embedCalls = n + 1
              /\ n < Len(chunks)
              /\ ing.docs[ing.d].id = chunks[n + 1].docId
              /\ ing.i = chunks[n + 1].chunkIndex
              /\ ing.chunks[ing.i + 1] = chunks[n + 1].content
        /\ ing.pc = "done" =>
              /\ ing.embedCalls = Len(chunks)
              /\ n = Len(chunks)
              /\ file.exists /\ file.records = ing.vectorStore

\* C27: a run of the ingestion that comes to its end has made exactly one
\* embedding call per chunk, in document order and then chunk order, and has
\* written one record per chunk in that order, each with its chunk's 0-based
\* position in its document as chunkIndex and with that document's id and
\* title; every step that embeds a chunk adds that chunk's record at the end.
C27_OneCallOneRecordInOrder ==
    /\ []IngestInOrder
    /\ [][(ing.pc = "embedding" /\ ing'.pc # "exited") =>
            /\ Len(ing'.vectorStore) = Len(ing.vectorStore) + 1
            /\ SubSeq(ing'.vectorStore, 1, Len(ing.vectorStore)) = ing.vectorStore
            /\ ing'.embedCalls = ing.embedCalls + (IF ing'.pc = "done" THEN 0 ELSE 1)]_vars

\* A run over two documents of three chunks each came to its end after six
\* calls and wrote six records, the fourth being chunk 0 of the second
\* document.
C27_Witness ==
    /\ ing.pc = "done"
    /\ Len(ing.docs) = 2
    /\ \A d \in 1..2 :
          Len(chunkText(ing.docs[d].content, CHUNK_SIZE_CHARS, CHUNK_OVERLAP_CHARS)) = 3
    /\ ing.embedCalls = 6
    /\ Len(file.records) = 6
    /\ file.records[3].docId = 1 /\ file.records[3].chunkIndex = 2
    /\ file.records[4].docId = 2 /\ file.records[4].chunkIndex = 0
    /\ file.records[4].content # file.records[6].content
    /\ file.records[4].embedding # file.records[6].embedding

\* The prompt of the harness's call renders its arguments in their order
PromptInOrder ==
    pr.calls > 0 =>
        LET chunks == pr.retrievedChunks
            p      == pr.prompt
        IN  /\ IF Len(chunks) = 0
               THEN p.contextBlock = <<"No relevant context found.">>
               ELSE /\ Len(p.contextBlock) = Len(chunks)
                    /\ \A i \in 1..Len(chunks) :
                          /\ p.contextBlock[i].index = i
                          /\ p.contextBlock[i].title = chunks[i].title
                          /\ p.contextBlock[i].content = chunks[i].content
                          /\ p.contextBlock[i].relevance = Relevance(chunks[i].score)
            /\ IF Len(pr.history) = 0
               THEN p.historyBlock = <<"No previous conversation.">>
               ELSE /\ Len(p.historyBlock) = Len(pr.history)
                    /\ \A i \in 1..Len(pr.history) :
                          /\ p.historyBlock[i].content = pr.history[i].content
                          /\ p.historyBlock[i].label =
                                (IF pr.history[i].role = "user" THEN "User"
                                 ELSE "Assistant")
            /\ p.question = pr.userMessage

\* C28: buildPrompt lists the chunks with 1-based indices in the order given
\* and the turns in the order given, a turn of role 'user' as 'User' and a
\* turn of any other role as 'Assistant', and renders an empty history as
\* 'No previous conversation.'; a call leaves the chunk list and the history
\* as they were, and a second call on them gives the same prompt.
C28_PromptPreservesOrder ==
    /\ []PromptInOrder
    /\ [][/\ pr'.retrievedChunks = pr.retrievedChunks
          /\ pr'.history = pr.history
          /\ pr'.userMessage = pr.userMessage
          /\ pr.calls > 0 => pr'.prompt = pr.prompt]_vars

\* A prompt was composed from three chunks that are not in rank order and
\* from the turns user, model, system.
C28_Witness ==
    /\ pr.calls = 2
    /\ Len(pr.retrievedChunks) = 3
    /\ pr.retrievedChunks[1].score.v < pr.retrievedChunks[2].score.v
    /\ pr.prompt.contextBlock[2].title = "Accounts"
    /\ Len(pr.history) = 3
    /\ pr.history[1].role = USER /\ pr.history[2].role = MODEL
    /\ pr.history[3].role = "system"
    /\ pr.prompt.historyBlock[3].label = "Assistant"

\* The prompt of an exchange waiting for its generate call is the one
\* composed from the history the handler read when the request came in.
PromptFromSnapshot ==
    \A s \in Slots :
        pc[s] = "generating" =>
            h[s].prompt = buildPrompt(h[s].topChunks, h[s].history, h[s].trimmedMessage)

\* C29: a reset of a session leaves the session's exchanges in flight as they
\* were, with the history they read and the prompt composed from it; an
\* exchange in flight keeps that history until it is answered; and when its
\* pipeline has returned the handler appends its user and assistant turns to
\* whatever the session holds then, so after a reset during the exchange the
\* session holds that exchange's pair and is not empty.
C29_ResetDoesNotCancel ==
    /\ []PromptFromSnapshot
    /\ [][\A id \in DOMAIN sessions :
            (sessions[id] # <<>> /\ sessions'[id] = <<>>) => (pc' = pc /\ h' = h)]_vars
    /\ [][\A s \in Slots :
            /\ (Pending(s) /\ pc'[s] # "responded") =>
                  /\ h'[s].history = h[s].history
                  /\ h'[s].ex = h[s].ex
            /\ (pc[s] = "resolved" /\ h'[s] # h[s]) =>
                  LET id == h[s].sessionId
                  IN  /\ pc'[s] = "responded" /\ h'[s].status = 200
                      /\ sessions'[id] = sessions[id] \o
                            << [role |-> USER, content |-> h[s].trimmedMessage,
                                ex |-> h[s].ex],
                               [role |-> MODEL, content |-> h[s].result.reply,
                                ex |-> h[s].ex] >>]_vars

\* Two exchanges of one session were in flight together; the later one was
\* recorded, the session was reset, and then the earlier one was recorded:
\* the session holds the earlier exchange's pair and nothing else.
C29_Witness ==
    \E s, t \in Slots :
        /\ Succeeded(s) /\ Succeeded(t)
        /\ h[s].ex.to = h[t].ex.to
        /\ h[s].ex.n < h[t].ex.n
        /\ Len(sessions[h[s].ex.to]) = 2
        /\ sessions[h[s].ex.to][1].ex = h[s].ex
        /\ sessions[h[s].ex.to][2].ex = h[s].ex
        /\ sessions[h[s].ex.to][2].role = MODEL

\* An exchange that is in flight or has failed has its session, and a failed
\* one has no turn in it.
FailedKeepsSession ==
    \A s \in Slots :
        /\ Pending(s) => sessionExists(sessions, h[s].sessionId)
        /\ Failed(s) =>
              /\ sessionExists(sessions, h[s].ex.to)
              /\ h[s].ex \notin { sessions[h[s].ex.to][i].ex :
                                    i \in 1..Len(sessions[h[s].ex.to]) }

\* C30: a chat request that passes validation and names an id without a
\* session creates the session, empty, in the step that starts its embed
\* call, so the count grows by one before the pipeline runs; the steps in
\* which the exchange fails and is answered change no session, so after a
\* provider error the session exists with the turns it had, none for a new
\* one.
C30_FailedExchangeLeavesSession ==
    /\ []FailedKeepsSession
    /\ [][\A s \in Slots :
            /\ (pc'[s] = "embedding" /\ pc[s] # "embedding"
                /\ ~sessionExists(sessions, h'[s].sessionId)) =>
                    /\ sessionExists(sessions', h'[s].sessionId)
                    /\ sessions'[h'[s].sessionId] = <<>>
                    /\ getSessionCount(sessions') = getSessionCount(sessions) + 1
                    /\ h'[s].embedCalls = 1 /\ h'[s].genCalls = 0
            /\ (pc'[s] # pc[s] /\ (pc'[s] = "rejected" \/ pc[s] = "rejected")) =>
                    /\ sessions' = sessions
                    /\ getSessionCount(sessions') = getSessionCount(sessions)]_vars

\* The first request, on an id that had no session, failed in its embed call
\* and was answered with an error: the session exists, it has no turn, and
\* it is the only one.
C30_Witness ==
    \E s \in Slots :
        /\ pc[s] = "responded" /\ Failed(s)
        /\ h[s].ex.n = 1 /\ nReq = 1
        /\ h[s].err.stage = "embedding"
        /\ h[s].status \in {401, 429, 504, 500}
        /\ sessionExists(sessions, h[s].ex.to)
        /\ sessions[h[s].ex.to] = <<>>
        /\ getSessionCount(sessions) = 1

====
